---- MODULE Spec2Model ----
(***************************************************************************)
(* Credential lifecycle of the identity service: token issuance,           *)
(* validation and revocation (internal/infrastructure/auth/token), the     *)
(* two-tier signing-key provider, the Redis-backed cache they share, and   *)
(* the TokenService wired in cmd/identity/main.go.                         *)
(*                                                                         *)
(* Time is counted in abstract ticks.  A JWT is modelled by its claims     *)
(* payload together with the HMAC key that signed it; two issuances with   *)
(* the same payload and the same key yield the same token string.          *)
(***************************************************************************)
EXTENDS Integers, FiniteSets, Sequences, TLC

\* ---------------------------------------------------------------- bounds
MaxTime == 2
MaxDuration == 2
MaxTokens == 1
MaxKeys == 2
MaxProcs == 2
MaxRand == 3
MaxMinLength == 3
MaxInputLen == 4

\* ------------------------------------------------------------ value sets
TokenTypeAccess == "access"
TokenTypeRefresh == "refresh"
TokenTypeReset == "reset"
TokenTypeVerification == "verification"
TokenType == {TokenTypeAccess, TokenTypeRefresh, TokenTypeReset, TokenTypeVerification}

UserIDs == {"u1"}
Emails == {"a@x.io"}
Usernames == {"alice"}
Roles == {"user"}

\* services.TokenClaims
TokenClaims == [UserID : UserIDs, Email : Emails, Username : Usernames,
                Role : Roles, TokenType : TokenType]

\* the three ways the repository wires a token service
Wirings == {"CreateUserService", "CreateTokenService", "main"}

Nil == "nil"
NoClaims == [nil |-> TRUE]
NoToken == [payload |-> [nil |-> TRUE], sig |-> 0]

\* error values
ErrCacheKeyNotFound == "cache key not found"
ErrCacheGet == "failed to get cache value"
ErrCacheSet == "failed to set cache value"
ErrRevocationCheck == "failed to check token revocation"
ErrRevoked == "token is revoked"
ErrGetSigningKey == "failed to get signing key"
ErrSignature == "failed to parse token: signature is invalid"
ErrExpired == "failed to parse token: token is expired"
ErrTokenTypeMismatch == "invalid token type"
ErrFailedToRevoke == "failed to revoke token"
ErrInvalidToken == "invalid token"
ErrTokenExpired == "token expired"

\* the secret of cmd/identity/main.go's TokenService; keys drawn by
\* rand.Read are numbered from 1
ConfigSigningKey == 0

VARIABLES
    wiring,        \* which constructor built the token service
    config,        \* services.TokenConfig: duration per token type
    now,           \* time.Now()
    issuances,     \* history: every successful Generate*Token call
    localKeys,     \* LocalKeyManager.keys
    storeKeys,     \* shared store, keys "signing_key:<type>"
    storeRevoked,  \* shared store, keys "revoked_token:<token>": value and expiry
    nextKey,       \* the next value rand.Read yields
    revokedOk,     \* history: tokens for which RevokeToken returned nil
    revokedTwice,  \* history: tokens for which it returned nil more than once
    last           \* the most recent call and what it returned

\* the key managers step by step, for calls that run concurrently
VARIABLES
    tier,          \* "local": LocalKeyManager, "distributed": RedisKeyManager
    instOf,        \* the service instance each goroutine runs in
    mKeys,         \* per instance: LocalKeyManager.keys
    mutex,         \* per instance: LocalKeyManager.mutex
    cacheKeys,     \* shared store, keys "signing_key:<type>"
    randNext,      \* the next value rand.Read yields
    pc,            \* per goroutine: the statement it is about to execute
    frame,         \* per goroutine: the arguments and locals of its call
    returned,      \* history: what GetSigningKey calls returned
    rotated,       \* history: the calls of RotateKey made by callers
    cacheFailed    \* history: some call to the shared store failed

svcVars == <<wiring, config, now, issuances, localKeys, storeKeys, storeRevoked,
             nextKey, revokedOk, revokedTwice, last>>

kmVars == <<tier, instOf, mKeys, mutex, cacheKeys, randNext, pc, frame,
            returned, rotated, cacheFailed>>

\* the password service: one call of a pure method per behaviour
VARIABLES
    passwordConfig,  \* Service.config
    pwLast,          \* the call made and what it returned
    hasherCalls      \* history: the passwords handed to hasher.Hash

pwVars == <<passwordConfig, pwLast, hasherCalls>>

\* user.Service: its handlers run as goroutines, one call of the token
\* service per step
VARIABLES
    users,         \* userRepo: the stored users
    upc,           \* per goroutine: the call of the handler it is about to make
    uframe,        \* per goroutine: the arguments and locals of its handler
    handedOut,     \* history: the tokens returned or mailed, and as what
    succeeded,     \* history: how often a handler returned success for a token
    uLast          \* the handler that returned last, and what it returned

userVars == <<users, upc, uframe, handedOut, succeeded, uLast>>

\* what the token service, the key managers, the password service and the
\* user service leave alone
outsideSvc == <<kmVars, pwVars, userVars>>

outsideKeys == <<svcVars, pwVars, userVars>>

outsidePw == <<svcVars, kmVars, userVars>>

outsideUser == <<kmVars, pwVars>>

vars == <<svcVars, kmVars, pwVars, userVars>>

issued == {i.token : i \in issuances}

\* --------------------------------------------------------------- helpers
Put(f, k, v) == [x \in (DOMAIN f) \cup {k} |-> IF x = k THEN v ELSE f[x]]

Restrict(f, S) == [x \in S |-> f[x]]

\* base64.StdEncoding
EncodeToString(key) == <<"b64", key>>

DecodeString(s) == s[2]

\* ------------------------------------------------- redis.CacheService
\* CacheService.Get: the error it returns; up says whether the store answers,
\* exists whether the key is present (redis.Nil otherwise)
CacheService_Get(up, exists) ==
    IF ~up THEN ErrCacheGet
    ELSE IF ~exists THEN ErrCacheKeyNotFound
    ELSE Nil

\* CacheService.Set: the error it returns
CacheService_Set(up) == IF up THEN Nil ELSE ErrCacheSet

\* the instant a key written now with the given expiration disappears;
\* expiration 0 means the key never expires
Forever == MaxTime + MaxDuration + 1

ExpiresAt(expiration) == IF expiration = 0 THEN Forever ELSE now + expiration

\* -------------------------------------------------- LocalKeyManager
\* a rotation that keeps the key a kind already has
LocalKeyManager_RotateKey_KeepsPrior(keys, tokenType) ==
    IF tokenType \in DOMAIN keys
    THEN [err |-> Nil, keys |-> keys, nk |-> nextKey + 1]
    ELSE [err |-> Nil, keys |-> Put(keys, tokenType, nextKey), nk |-> nextKey + 1]

\* a rotation that replaces the whole key map by the one fresh key
LocalKeyManager_RotateKey_Resets(keys, tokenType) ==
    [err |-> Nil, keys |-> Put(<< >>, tokenType, nextKey), nk |-> nextKey + 1]

\* rand.Read is taken to succeed: every call yields 32 fresh bytes
LocalKeyManager_RotateKey(keys, tokenType) ==
    [err |-> Nil, keys |-> Put(keys, tokenType, nextKey), nk |-> nextKey + 1]

LocalKeyManager_GetSigningKey(keys, tokenType) ==
    IF tokenType \in DOMAIN keys
    THEN [key |-> keys[tokenType], err |-> Nil, keys |-> keys, nk |-> nextKey]
    ELSE LET r == LocalKeyManager_RotateKey(keys, tokenType) IN
         IF r.err # Nil
         THEN [key |-> 0, err |-> r.err, keys |-> r.keys, nk |-> r.nk]
         ELSE [key |-> r.keys[tokenType], err |-> Nil, keys |-> r.keys, nk |-> r.nk]

\* -------------------------------------------------- RedisKeyManager
\* a key read that falls back for an absent key only and surfaces every
\* other failure of the store
RedisKeyManager_GetSigningKey_SurfacesReadError(tokenType, up) ==
    LET err == CacheService_Get(up, tokenType \in DOMAIN storeKeys) IN
    IF err = ErrCacheKeyNotFound
    THEN LocalKeyManager_GetSigningKey(localKeys, tokenType)
    ELSE IF err # Nil
    THEN [key |-> 0, err |-> err, keys |-> localKeys, nk |-> nextKey]
    ELSE [key |-> DecodeString(storeKeys[tokenType]), err |-> Nil,
          keys |-> localKeys, nk |-> nextKey]

RedisKeyManager_GetSigningKey(tokenType, up) ==
    IF CacheService_Get(up, tokenType \in DOMAIN storeKeys) # Nil
    THEN LocalKeyManager_GetSigningKey(localKeys, tokenType)
    ELSE [key |-> DecodeString(storeKeys[tokenType]), err |-> Nil,
          keys |-> localKeys, nk |-> nextKey]

\* a rotation that gives up when the store write fails
RedisKeyManager_RotateKey_SurfacesWriteError(tokenType, up) ==
    IF CacheService_Set(up) # Nil
    THEN [err |-> ErrCacheSet, keys |-> localKeys, skeys |-> storeKeys,
          nk |-> nextKey + 1]
    ELSE [err |-> Nil, keys |-> localKeys,
          skeys |-> Put(storeKeys, tokenType, EncodeToString(nextKey)),
          nk |-> nextKey + 1]

\* returns the error, the local key map, the store's key entries and the
\* next random value
RedisKeyManager_RotateKey(tokenType, up) ==
    IF CacheService_Set(up) # Nil
    THEN [err |-> Nil, keys |-> Put(localKeys, tokenType, nextKey),
          skeys |-> storeKeys, nk |-> nextKey + 1]
    ELSE [err |-> Nil, keys |-> localKeys,
          skeys |-> Put(storeKeys, tokenType, EncodeToString(nextKey)),
          nk |-> nextKey + 1]

\* the KeyManager the wiring handed to token.NewService
KeyManager_GetSigningKey(tokenType, up) ==
    IF wiring = "CreateUserService"
    THEN RedisKeyManager_GetSigningKey(tokenType, up)
    ELSE LocalKeyManager_GetSigningKey(localKeys, tokenType)

KeyManager_RotateKey(tokenType, up) ==
    IF wiring = "CreateUserService"
    THEN RedisKeyManager_RotateKey(tokenType, up)
    ELSE LET r == LocalKeyManager_RotateKey(localKeys, tokenType) IN
         [err |-> r.err, keys |-> r.keys, skeys |-> storeKeys, nk |-> r.nk]

\* ------------------------------------------------------------ jwt/v5
\* Parser.ParseWithClaims: the signature is verified first, then the
\* registered claims; a token is expired unless now is before exp
jwt_Parse(token, key) ==
    IF token.sig # key THEN "ErrTokenSignatureInvalid"
    ELSE IF ~(now < token.payload.exp) THEN "ErrTokenExpired"
    ELSE Nil

\* ------------------------------------------------- token.Service
Duration(kind) == config[kind]

Service_generateToken(claims, duration, up) ==
    LET jwtClaims == [user_id |-> claims.UserID,
                      email |-> claims.Email,
                      username |-> claims.Username,
                      token_type |-> claims.TokenType,
                      iat |-> now,
                      exp |-> now + duration]
        g == KeyManager_GetSigningKey(claims.TokenType, up)
    IN  IF g.err # Nil
        THEN [token |-> NoToken, err |-> ErrGetSigningKey, keys |-> g.keys, nk |-> g.nk]
        ELSE [token |-> [payload |-> jwtClaims, sig |-> g.key], err |-> Nil,
              keys |-> g.keys, nk |-> g.nk]

\* a revocation check that takes a failed read for "not revoked"
Service_IsTokenRevoked_FailOpen(token, up) ==
    LET err == CacheService_Get(up, token \in DOMAIN storeRevoked) IN
    IF err # Nil
    THEN [revoked |-> FALSE, err |-> Nil]
    ELSE [revoked |-> storeRevoked[token].value, err |-> Nil]

Service_IsTokenRevoked(token, up) ==
    LET err == CacheService_Get(up, token \in DOMAIN storeRevoked) IN
    IF err # Nil
    THEN [revoked |-> FALSE, err |-> ErrRevocationCheck]
    ELSE [revoked |-> storeRevoked[token].value, err |-> Nil]

\* a validation that drops the error of the revocation check
Service_ValidateToken_IgnoresCheckError(token, tokenType, upRev, upKey) ==
    LET rev == Service_IsTokenRevoked(token, upRev)
        g == KeyManager_GetSigningKey(tokenType, upKey)
        perr == jwt_Parse(token, g.key)
    IN  IF rev.revoked
        THEN [claims |-> NoClaims, err |-> ErrRevoked, rev |-> rev,
              keys |-> localKeys, nk |-> nextKey]
        ELSE IF g.err # Nil
        THEN [claims |-> NoClaims, err |-> ErrGetSigningKey, rev |-> rev,
              keys |-> g.keys, nk |-> g.nk]
        ELSE IF perr # Nil
        THEN [claims |-> NoClaims,
              err |-> IF perr = "ErrTokenExpired" THEN ErrExpired ELSE ErrSignature,
              rev |-> rev, keys |-> g.keys, nk |-> g.nk]
        ELSE IF token.payload.token_type # tokenType
        THEN [claims |-> NoClaims, err |-> ErrTokenTypeMismatch, rev |-> rev,
              keys |-> g.keys, nk |-> g.nk]
        ELSE [claims |-> [UserID |-> token.payload.user_id,
                          Email |-> token.payload.email,
                          Username |-> token.payload.username,
                          Role |-> "",
                          TokenType |-> tokenType],
              err |-> Nil, rev |-> rev, keys |-> g.keys, nk |-> g.nk]

\* a validation that parses the token before it consults the registry
Service_ValidateToken_ParseFirst(token, tokenType, upRev, upKey) ==
    LET rev == Service_IsTokenRevoked(token, upRev)
        g == KeyManager_GetSigningKey(tokenType, upKey)
        perr == jwt_Parse(token, g.key)
    IN  IF g.err # Nil
        THEN [claims |-> NoClaims, err |-> ErrGetSigningKey, rev |-> rev,
              keys |-> g.keys, nk |-> g.nk]
        ELSE IF perr # Nil
        THEN [claims |-> NoClaims,
              err |-> IF perr = "ErrTokenExpired" THEN ErrExpired ELSE ErrSignature,
              rev |-> rev, keys |-> g.keys, nk |-> g.nk]
        ELSE IF token.payload.token_type # tokenType
        THEN [claims |-> NoClaims, err |-> ErrTokenTypeMismatch, rev |-> rev,
              keys |-> g.keys, nk |-> g.nk]
        ELSE IF rev.err # Nil
        THEN [claims |-> NoClaims, err |-> ErrRevocationCheck, rev |-> rev,
              keys |-> g.keys, nk |-> g.nk]
        ELSE IF rev.revoked
        THEN [claims |-> NoClaims, err |-> ErrRevoked, rev |-> rev,
              keys |-> g.keys, nk |-> g.nk]
        ELSE [claims |-> [UserID |-> token.payload.user_id,
                          Email |-> token.payload.email,
                          Username |-> token.payload.username,
                          Role |-> "",
                          TokenType |-> tokenType],
              err |-> Nil, rev |-> rev, keys |-> g.keys, nk |-> g.nk]

Service_ValidateToken(token, tokenType, upRev, upKey) ==
    LET rev == Service_IsTokenRevoked(token, upRev)
        g == KeyManager_GetSigningKey(tokenType, upKey)
        perr == jwt_Parse(token, g.key)
    IN  IF rev.err # Nil
        THEN [claims |-> NoClaims, err |-> ErrRevocationCheck, rev |-> rev,
              keys |-> localKeys, nk |-> nextKey]
        ELSE IF rev.revoked
        THEN [claims |-> NoClaims, err |-> ErrRevoked, rev |-> rev,
              keys |-> localKeys, nk |-> nextKey]
        ELSE IF g.err # Nil
        THEN [claims |-> NoClaims, err |-> ErrGetSigningKey, rev |-> rev,
              keys |-> g.keys, nk |-> g.nk]
        ELSE IF perr # Nil
        THEN [claims |-> NoClaims,
              err |-> IF perr = "ErrTokenExpired" THEN ErrExpired ELSE ErrSignature,
              rev |-> rev, keys |-> g.keys, nk |-> g.nk]
        ELSE IF token.payload.token_type # tokenType
        THEN [claims |-> NoClaims, err |-> ErrTokenTypeMismatch, rev |-> rev,
              keys |-> g.keys, nk |-> g.nk]
        ELSE [claims |-> [UserID |-> token.payload.user_id,
                          Email |-> token.payload.email,
                          Username |-> token.payload.username,
                          Role |-> "",
                          TokenType |-> tokenType],
              err |-> Nil, rev |-> rev, keys |-> g.keys, nk |-> g.nk]

\* a revocation that refuses a token the registry already holds a marker for
Service_RevokeToken_OnlyOnce(token, up) ==
    IF CacheService_Set(up) # Nil \/ token \in DOMAIN storeRevoked
    THEN [err |-> ErrFailedToRevoke, srev |-> storeRevoked]
    ELSE [err |-> Nil,
          srev |-> Put(storeRevoked, token,
                       [value |-> TRUE, until |-> ExpiresAt(Duration(TokenTypeAccess))])]

\* a revocation whose marker lives one unit of time, whatever the lifetime of
\* an access token
Service_RevokeToken_ShortMarker(token, up) ==
    IF CacheService_Set(up) # Nil
    THEN [err |-> ErrFailedToRevoke, srev |-> storeRevoked]
    ELSE [err |-> Nil,
          srev |-> Put(storeRevoked, token,
                       [value |-> TRUE, until |-> ExpiresAt(1)])]

\* returns the error and the store's revocation entries
Service_RevokeToken(token, up) ==
    IF CacheService_Set(up) # Nil
    THEN [err |-> ErrFailedToRevoke, srev |-> storeRevoked]
    ELSE [err |-> Nil,
          srev |-> Put(storeRevoked, token,
                       [value |-> TRUE, until |-> ExpiresAt(Duration(TokenTypeAccess))])]

\* ------------------------------- services.TokenService (cmd/identity/main.go)
TokenService_generateToken(claims, duration) ==
    [payload |-> [user_id |-> claims.UserID,
                  email |-> claims.Email,
                  username |-> claims.Username,
                  role |-> claims.Role,
                  token_type |-> claims.TokenType,
                  exp |-> now + duration],
     sig |-> ConfigSigningKey]

TokenService_ValidateToken(token, tokenType) ==
    LET perr == jwt_Parse(token, ConfigSigningKey) IN
    IF perr # Nil
    THEN [claims |-> NoClaims,
          err |-> IF perr = "ErrTokenExpired" THEN ErrTokenExpired ELSE ErrInvalidToken]
    ELSE IF token.payload.token_type # tokenType
    THEN [claims |-> NoClaims, err |-> ErrInvalidToken]
    ELSE [claims |-> [UserID |-> token.payload.user_id,
                      Email |-> token.payload.email,
                      Username |-> token.payload.username,
                      Role |-> token.payload.role,
                      TokenType |-> token.payload.token_type],
          err |-> Nil]

TokenService_RevokeToken(token) == Nil

TokenService_IsTokenRevoked(token) == [revoked |-> FALSE, err |-> Nil]

\* the four Generate*Token methods of token.Service
Service_GenerateToken(op, claims, up) ==
    Service_generateToken(claims, Duration(op), up)

\* the four Generate*Token methods of services.TokenService
TokenService_GenerateToken(op, claims) ==
    TokenService_generateToken(claims, Duration(op))

\* ------------------------------------------------- password.Service
\* A password is a sequence of characters, a character a string: one ASCII
\* character, or the name of a code point outside ASCII.
upperLetters == <<"A","B","C","D","E","F","G","H","I","J","K","L","M",
                  "N","O","P","Q","R","S","T","U","V","W","X","Y","Z">>

lowerLetters == <<"a","b","c","d","e","f","g","h","i","j","k","l","m",
                  "n","o","p","q","r","s","t","u","v","w","x","y","z">>

digits == <<"0","1","2","3","4","5","6","7","8","9">>

specials == <<"!","@","#","$","%","^","&","*","(",")","_","+","-","=",
              "[","]","{","}","|",";",":",",",".","<",">","?">>

Range(f) == {f[i] : i \in DOMAIN f}

\* a lower-case letter of two bytes in UTF-8
EAcute == "U+00E9"

\* len(password) counts bytes
ByteLen(c) == IF c = EAcute THEN 2 ELSE 1

RECURSIVE len(_)
len(password) ==
    IF password = << >> THEN 0
    ELSE ByteLen(Head(password)) + len(Tail(password))

\* package unicode, on the characters of the model
IsUpper(c) == c \in Range(upperLetters)

IsLower(c) == c \in Range(lowerLetters) \cup {EAcute}

IsNumber(c) == c \in Range(digits)

IsPunctOrSymbol(c) == c \in Range(specials)

\* strings.ToLower of one character, as (?i) folds it
ToLower(c) ==
    IF c \in Range(upperLetters)
    THEN lowerLetters[CHOOSE i \in DOMAIN upperLetters : upperLetters[i] = c]
    ELSE c

\* a pattern that lacks the flag (?i)
MatchFold_CaseSensitive(word, password) ==
    \E k \in 0..(Len(password) - Len(word)) :
        \A i \in 1..Len(word) : password[k + i] = word[i]

\* the pattern word occurs in password, letter case ignored
MatchFold(word, password) ==
    \E k \in 0..(Len(password) - Len(word)) :
        \A i \in 1..Len(word) : ToLower(password[k + i]) = word[i]

\* \d{4}
MatchFourDigits(password) ==
    \E k \in 0..(Len(password) - 4) :
        \A i \in 1..4 : password[k + i] \in Range(digits)

\* (.)\1{2,}: regexp rejects the back-reference, MatchString returns
\* (false, error) and the error is dropped
MatchRepeated(password) == FALSE

\* the loop over commonPatterns, lines 183-195
MatchesCommonPattern(password) ==
    \/ MatchFourDigits(password)
    \/ MatchFold(<<"p","a","s","s","w","o","r","d">>, password)
    \/ MatchFold(<<"a","d","m","i","n">>, password)
    \/ MatchRepeated(password)
    \/ MatchFold(<<"q","w","e","r","t","y">>, password)
    \/ MatchFold(<<"a","s","d","f">>, password)

ErrTooShort == "password must be at least MinLength characters long"
ErrTooLong == "password must not exceed MaxLength characters"
ErrNoUpper == "password must contain at least one uppercase letter"
ErrNoLower == "password must contain at least one lowercase letter"
ErrNoNumber == "password must contain at least one number"
ErrNoSpecial == "password must contain at least one special character"
ErrUnsafePattern == "password contains common unsafe pattern"

\* the switch of lines 156-167 takes the first case that applies
hasUpper(password) == \E i \in DOMAIN password : IsUpper(password[i])

hasLower(password) ==
    \E i \in DOMAIN password : ~IsUpper(password[i]) /\ IsLower(password[i])

hasNumber(password) ==
    \E i \in DOMAIN password :
        ~IsUpper(password[i]) /\ ~IsLower(password[i]) /\ IsNumber(password[i])

hasSpecial(password) ==
    \E i \in DOMAIN password :
        /\ ~IsUpper(password[i]) /\ ~IsLower(password[i]) /\ ~IsNumber(password[i])
        /\ IsPunctOrSymbol(password[i])

\* a validation that never asks for a special character
Service_ValidatePassword_SkipsSpecial(cfg, password) ==
    IF len(password) < cfg.MinLength THEN ErrTooShort
    ELSE IF len(password) > cfg.MaxLength THEN ErrTooLong
    ELSE IF cfg.RequireUppercase /\ ~hasUpper(password) THEN ErrNoUpper
    ELSE IF cfg.RequireLowercase /\ ~hasLower(password) THEN ErrNoLower
    ELSE IF cfg.RequireNumbers /\ ~hasNumber(password) THEN ErrNoNumber
    ELSE IF MatchesCommonPattern(password) THEN ErrUnsafePattern
    ELSE Nil

\* Service.ValidatePassword: the error it returns
Service_ValidatePassword(cfg, password) ==
    IF len(password) < cfg.MinLength THEN ErrTooShort
    ELSE IF len(password) > cfg.MaxLength THEN ErrTooLong
    ELSE IF cfg.RequireUppercase /\ ~hasUpper(password) THEN ErrNoUpper
    ELSE IF cfg.RequireLowercase /\ ~hasLower(password) THEN ErrNoLower
    ELSE IF cfg.RequireNumbers /\ ~hasNumber(password) THEN ErrNoNumber
    ELSE IF cfg.RequireSpecialChars /\ ~hasSpecial(password) THEN ErrNoSpecial
    ELSE IF MatchesCommonPattern(password) THEN ErrUnsafePattern
    ELSE Nil

\* byte(n)
Byte(n) == n % 256

\* the number of enabled classes, lines 64-76
EnabledClasses(cfg) ==
    (IF cfg.RequireUppercase THEN 1 ELSE 0)
    + (IF cfg.RequireLowercase THEN 1 ELSE 0)
    + (IF cfg.RequireNumbers THEN 1 ELSE 0)
    + (IF cfg.RequireSpecialChars THEN 1 ELSE 0)

\* length, lines 79-84
GeneratedLength(cfg) ==
    (IF cfg.MinLength > EnabledClasses(cfg)
     THEN cfg.MinLength ELSE EnabledClasses(cfg)) + 4

\* lines 93-108: one character of each required class; randomBytes[k] of
\* the source is randomBytes[k + 1] here
Mandatory(cfg, randomBytes) ==
    (IF cfg.RequireUppercase
     THEN <<upperLetters[(randomBytes[1] % Byte(Len(upperLetters))) + 1]>> ELSE << >>)
    \o (IF cfg.RequireLowercase
        THEN <<lowerLetters[(randomBytes[2] % Byte(Len(lowerLetters))) + 1]>> ELSE << >>)
    \o (IF cfg.RequireNumbers
        THEN <<digits[(randomBytes[3] % Byte(Len(digits))) + 1]>> ELSE << >>)
    \o (IF cfg.RequireSpecialChars
        THEN <<specials[(randomBytes[4] % Byte(Len(specials))) + 1]>> ELSE << >>)

\* lines 111-123
AllChars(cfg) ==
    (IF cfg.RequireUppercase THEN upperLetters ELSE << >>)
    \o (IF cfg.RequireLowercase THEN lowerLetters ELSE << >>)
    \o (IF cfg.RequireNumbers THEN digits ELSE << >>)
    \o (IF cfg.RequireSpecialChars THEN specials ELSE << >>)

\* lines 125-128: for i := len(password); i < length; i++
RECURSIVE Fill(_, _, _, _)
Fill(password, allChars, randomBytes, length) ==
    IF Len(password) >= length THEN password
    ELSE Fill(Append(password,
                     allChars[(randomBytes[Len(password) + 1] % Byte(Len(allChars))) + 1]),
              allChars, randomBytes, length)

\* password[i], password[j] = password[j], password[i], 0-based
Swap(password, i, j) ==
    [k \in DOMAIN password |->
        IF k = i + 1 THEN password[j + 1]
        ELSE IF k = j + 1 THEN password[i + 1]
        ELSE password[k]]

\* lines 131-134: for i := len(password) - 1; i > 0; i--
RECURSIVE Shuffle(_, _, _)
Shuffle(password, randomBytes, i) ==
    IF i <= 0 THEN password
    ELSE Shuffle(Swap(password, i, randomBytes[i + 1] % Byte(i + 1)),
                 randomBytes, i - 1)

ErrEntropy == "failed to generate random bytes"
Panic == "panic: runtime error: integer divide by zero"

\* Service.GenerateRandomPassword on the bytes entropy.Read delivered
\* (none: the read failed); a modulus of zero panics
Service_GenerateRandomPassword(cfg, randomBytes) ==
    LET length == GeneratedLength(cfg)
        allChars == AllChars(cfg)
    IN  IF randomBytes = << >>
        THEN [password |-> << >>, err |-> ErrEntropy]
        ELSE IF Byte(Len(allChars)) = 0
                \/ \E i \in 1..(length - 1) : Byte(i + 1) = 0
        THEN [password |-> << >>, err |-> Panic]
        ELSE [password |->
                 Shuffle(Fill(Mandatory(cfg, randomBytes), allChars,
                              randomBytes, length),
                         randomBytes, length - 1),
              err |-> Nil]

\* ---------------------------------------------------- BCryptHasher
\* a stored hash: the bcrypt encoding of a password, or a string that
\* bcrypt cannot read, because it is shorter than a bcrypt hash or because
\* its base64 part does not decode
NoHash == [form |-> "none", of |-> << >>]

BcryptOf(password) == [form |-> "bcrypt", of |-> password]

TooShortHash == [form |-> "short", of |-> << >>]

CorruptHash == [form |-> "corrupt", of |-> << >>]

ErrHash == "failed to generate bcrypt hash"
ErrFailedToHash == "failed to hash password: failed to generate bcrypt hash"
ErrInvalidPassword == "invalid password"
ErrHashTooShort ==
    "failed to verify password: crypto/bcrypt: hashedSecret too short to be a bcrypted password"
ErrCorruptInput == "failed to verify password: illegal base64 data"

\* BCryptHasher.Hash; ok says whether bcrypt.GenerateFromPassword succeeds
BCryptHasher_Hash(password, ok) ==
    IF ok THEN [hash |-> BcryptOf(password), err |-> Nil]
    ELSE [hash |-> NoHash, err |-> ErrHash]

\* BCryptHasher.Verify: bcrypt.CompareHashAndPassword reads the hash, then
\* compares
BCryptHasher_Verify(password, hash) ==
    IF hash.form = "short" THEN ErrHashTooShort
    ELSE IF hash.form = "corrupt" THEN ErrCorruptInput
    ELSE IF hash.of # password THEN ErrInvalidPassword
    ELSE Nil

\* fmt.Errorf("password validation failed: %w", err)
ValidationFailed(err) ==
    CASE err = ErrTooShort ->
           "password validation failed: password must be at least MinLength characters long"
      [] err = ErrTooLong ->
           "password validation failed: password must not exceed MaxLength characters"
      [] err = ErrNoUpper ->
           "password validation failed: password must contain at least one uppercase letter"
      [] err = ErrNoLower ->
           "password validation failed: password must contain at least one lowercase letter"
      [] err = ErrNoNumber ->
           "password validation failed: password must contain at least one number"
      [] err = ErrNoSpecial ->
           "password validation failed: password must contain at least one special character"
      [] err = ErrUnsafePattern ->
           "password validation failed: password contains common unsafe pattern"

\* fmt.Errorf("password verification failed: %w", err)
VerificationFailed(err) ==
    CASE err = ErrInvalidPassword -> "password verification failed: invalid password"
      [] err = ErrHashTooShort ->
           "password verification failed: failed to verify password: crypto/bcrypt: hashedSecret too short to be a bcrypted password"
      [] err = ErrCorruptInput ->
           "password verification failed: failed to verify password: illegal base64 data"

\* a HashPassword that hashes before it validates
Service_HashPassword_HashesFirst(cfg, password, ok) ==
    LET h == BCryptHasher_Hash(password, ok)
        v == Service_ValidatePassword(cfg, password)
    IN  IF h.err # Nil
        THEN [hash |-> NoHash, err |-> ErrFailedToHash, hashed |-> <<password>>]
        ELSE IF v # Nil
        THEN [hash |-> NoHash, err |-> ValidationFailed(v), hashed |-> <<password>>]
        ELSE [hash |-> h.hash, err |-> Nil, hashed |-> <<password>>]

\* Service.HashPassword: the hash, the error, and the passwords it handed
\* to the hasher
Service_HashPassword(cfg, password, ok) ==
    LET v == Service_ValidatePassword(cfg, password)
        h == BCryptHasher_Hash(password, ok)
    IN  IF v # Nil
        THEN [hash |-> NoHash, err |-> ValidationFailed(v), hashed |-> << >>]
        ELSE IF h.err # Nil
        THEN [hash |-> NoHash, err |-> ErrFailedToHash, hashed |-> <<password>>]
        ELSE [hash |-> h.hash, err |-> Nil, hashed |-> <<password>>]

\* Service.VerifyPassword: the error it returns
Service_VerifyPassword(password, hash) ==
    LET err == BCryptHasher_Verify(password, hash) IN
    IF err # Nil THEN VerificationFailed(err) ELSE Nil

\* bcrypt's limit, the MaxLength the factory configures
BcryptMaxLength == 72

\* the least MinLength for which length no longer fits a byte
LongMinLength == 256 - 4

\* services.PasswordConfig
PasswordConfigs ==
    [MinLength : (0..MaxMinLength) \cup {LongMinLength},
     MaxLength : {MaxMinLength, BcryptMaxLength},
     RequireUppercase : BOOLEAN, RequireLowercase : BOOLEAN,
     RequireNumbers : BOOLEAN, RequireSpecialChars : BOOLEAN]

\* the values a byte of the entropy source takes
ByteSamples == {0, 52, 255}

\* the characters of the passwords callers submit
PwChars == {"A", "a", "1", "!", " ", EAcute}

PasswordInputs == UNION {[1..n -> PwChars] : n \in 0..MaxInputLen}

\* strings.ToUpper of one character
ToUpper(c) ==
    IF c \in Range(lowerLetters)
    THEN upperLetters[CHOOSE i \in DOMAIN lowerLetters : lowerLetters[i] = c]
    ELSE c

\* the words of the deny-list, and the letter cases callers write them in
WeakWords == {<<"p","a","s","s","w","o","r","d">>, <<"a","d","m","i","n">>,
              <<"q","w","e","r","t","y">>, <<"a","s","d","f">>}

Casings(word) ==
    {word,
     [i \in DOMAIN word |-> ToUpper(word[i])],
     [i \in DOMAIN word |-> IF i = 1 THEN ToUpper(word[i]) ELSE word[i]],
     [i \in DOMAIN word |-> IF i % 2 = 0 THEN ToUpper(word[i]) ELSE word[i]]}

Affixes == {<< >>, <<"1", "!">>, <<"Z">>}

\* passwords built around a word of the deny-list ("Password1!" among them),
\* around a word one letter short of it, and around runs of digits
DictionaryInputs ==
    {pre \o w \o suf :
        pre \in Affixes, suf \in Affixes,
        w \in UNION {Casings(x) \cup {Tail(x)} : x \in WeakWords}
               \cup {<<"0","1","2","3">>, <<"9","8","7","6","5">>, <<"4","2","0">>}}

\* the passwords and the stored hashes VerifyPassword is called with
VerifyPasswords == {<<"a">>, <<"A", "a", "1", "!">>}

StoredHashes == {BcryptOf(password) : password \in VerifyPasswords}
                \cup {TooShortHash, CorruptHash}

NoPwCall == [op |-> "none", password |-> << >>, randomBytes |-> << >>, err |-> Nil]

\* password.NewService, no call made
PwIdle ==
    /\ passwordConfig = [MinLength |-> 0, MaxLength |-> BcryptMaxLength,
                         RequireUppercase |-> TRUE, RequireLowercase |-> TRUE,
                         RequireNumbers |-> TRUE, RequireSpecialChars |-> TRUE]
    /\ pwLast = NoPwCall
    /\ hasherCalls = << >>

\* ------------------------------------------------------- user.Service
\* the password a user registered with, the one a reset sets, and one the
\* policy rejects
RegisteredPassword == <<"S","e","c","r","3","t","!","x">>

NewPassword == <<"N","e","w","p","4","s","s","!">>

WeakPassword == <<"a">>

\* a goroutine outside every handler
NoUFrame == [op |-> "none", token |-> NoToken, newPassword |-> << >>,
             claims |-> NoClaims, access |-> NoToken, refresh |-> NoToken,
             up |-> TRUE]

NoULast == [op |-> "none", token |-> NoToken, err |-> Nil, up |-> TRUE]

UserStatusActive == "active"

UserStatusPending == "pending"

\* the address UpdateUser can change a user's email to
OtherEmail == "b@x.io"

\* user.NewService over a repository that holds the users as RegisterUser
\* created them (models.NewUser), no handler running
UserIdle ==
    /\ users = [u \in UserIDs |->
                   [Email |-> CHOOSE e \in Emails : TRUE,
                    Role |-> CHOOSE r \in Roles : TRUE,
                    PasswordHash |-> BcryptOf(RegisteredPassword),
                    Status |-> UserStatusPending,
                    EmailVerified |-> FALSE]]
    /\ upc = [p \in 1..MaxProcs |-> "idle"]
    /\ uframe = [p \in 1..MaxProcs |-> NoUFrame]
    /\ handedOut = {}
    /\ succeeded = << >>
    /\ uLast = NoULast

\* --------------------------------------------------------- configuration
\* lifetimes of hours and days, beyond every access lifetime of the model
LongLived == MaxDuration

\* the TokenConfig each wiring builds from Auth.AccessTokenDuration (a) and
\* Auth.RefreshTokenDuration (r), both validated to be non-zero; a refresh
\* token lives days, an access token minutes
NewTokenConfig(w, a, r) ==
    [x \in TokenType |->
        CASE x = TokenTypeAccess -> a
          [] x = TokenTypeRefresh -> r
          [] OTHER -> IF w = "CreateUserService" THEN 0 ELSE LongLived]

NoCall == [op |-> "none", kind |-> Nil, token |-> NoToken, claimsIn |-> NoClaims,
           claims |-> NoClaims, err |-> Nil, revoked |-> FALSE, up |-> TRUE]

\* the goroutines that call a key manager, and the service instances
Procs == 1..MaxProcs

Instances == {1, 2}

\* the kinds the concurrent calls contend for
ContendedKinds == {TokenTypeAccess, TokenTypeRefresh}

\* sync.RWMutex: the goroutine holding the write lock (0: none), the
\* goroutines holding the read lock, and those blocked in Lock(); a blocked
\* writer keeps new readers out
NoMutex == [writer |-> 0, readers |-> {}, waiting |-> {}]

\* a goroutine outside every call
NoFrame == [op |-> "none", tokenType |-> Nil, key |-> 0, inner |-> FALSE,
            res |-> FALSE]

\* NewLocalKeyManager / NewRedisKeyManager on every instance, no call running
KMIdle ==
    /\ mKeys = [i \in Instances |-> << >>]
    /\ mutex = [i \in Instances |-> NoMutex]
    /\ cacheKeys = << >>
    /\ randNext = 1
    /\ pc = [p \in Procs |-> "idle"]
    /\ frame = [p \in Procs |-> NoFrame]
    /\ returned = {}
    /\ rotated = {}
    /\ cacheFailed = FALSE

Init ==
    /\ tier = "local"
    /\ instOf = [p \in Procs |-> 1]
    /\ KMIdle
    /\ PwIdle
    /\ UserIdle
    /\ wiring \in Wirings
    /\ \E a \in 1..MaxDuration : config = NewTokenConfig(wiring, a, LongLived)
    /\ now = 0
    /\ issuances = {}
    /\ localKeys = << >>
    /\ storeKeys = << >>
    /\ storeRevoked = << >>
    /\ nextKey = 1
    /\ revokedOk = {}
    /\ revokedTwice = {}
    /\ last = NoCall

\* the outcomes a call to the shared store can have: none of the calls of
\* services.TokenService and of LocalKeyManager reaches the store
StoreOutcomes == IF wiring = "main" THEN {TRUE} ELSE BOOLEAN

KeyStoreOutcomes == IF wiring = "CreateUserService" THEN BOOLEAN ELSE {TRUE}

\* ---------------------------------------------------------------- actions
\* a caller issues a token through one of the Generate*Token methods
GenerateToken(op, claims, up) ==
    /\ Cardinality(issuances) < MaxTokens
    /\ IF wiring = "main"
       THEN LET tok == TokenService_GenerateToken(op, claims) IN
            /\ issuances' = issuances \cup {[claims |-> claims, token |-> tok]}
            /\ last' = [NoCall EXCEPT !.op = "GenerateToken", !.kind = op,
                           !.claimsIn = claims, !.token = tok]
            /\ UNCHANGED <<localKeys, nextKey>>
       ELSE LET r == Service_GenerateToken(op, claims, up) IN
            /\ r.nk <= MaxKeys + 1
            /\ issuances' = IF r.err = Nil
                  THEN issuances \cup {[claims |-> claims, token |-> r.token]}
                  ELSE issuances
            /\ localKeys' = r.keys
            /\ nextKey' = r.nk
            /\ last' = [NoCall EXCEPT !.op = "GenerateToken", !.kind = op,
                           !.claimsIn = claims, !.token = r.token,
                           !.err = r.err, !.up = up]
    /\ UNCHANGED <<wiring, config, now, storeKeys, storeRevoked, revokedOk,
                   revokedTwice>>
    /\ UNCHANGED outsideSvc

ValidateToken(token, tokenType, upRev, upKey) ==
    /\ IF wiring = "main"
       THEN LET r == TokenService_ValidateToken(token, tokenType) IN
            /\ last' = [NoCall EXCEPT !.op = "ValidateToken", !.kind = tokenType,
                           !.token = token, !.claims = r.claims, !.err = r.err]
            /\ UNCHANGED <<localKeys, nextKey>>
       ELSE LET r == Service_ValidateToken(token, tokenType, upRev, upKey) IN
            /\ r.nk <= MaxKeys + 1
            \* the key read's outcome is an input only when the read happens
            /\ (r.rev.err # Nil \/ r.rev.revoked) => upKey
            /\ localKeys' = r.keys
            /\ nextKey' = r.nk
            /\ last' = [NoCall EXCEPT !.op = "ValidateToken", !.kind = tokenType,
                           !.token = token, !.claims = r.claims, !.err = r.err,
                           !.revoked = r.rev.revoked, !.up = upRev]
    /\ UNCHANGED <<wiring, config, now, issuances, storeKeys, storeRevoked,
                   revokedOk, revokedTwice>>
    /\ UNCHANGED outsideSvc

RevokeToken(token, up) ==
    /\ IF wiring = "main"
       THEN /\ revokedOk' = IF TokenService_RevokeToken(token) = Nil
                            THEN revokedOk \cup {token} ELSE revokedOk
            /\ revokedTwice' = IF TokenService_RevokeToken(token) = Nil
                                  /\ token \in revokedOk
                               THEN revokedTwice \cup {token} ELSE revokedTwice
            /\ last' = [NoCall EXCEPT !.op = "RevokeToken", !.token = token,
                           !.err = TokenService_RevokeToken(token)]
            /\ UNCHANGED storeRevoked
       ELSE LET r == Service_RevokeToken(token, up) IN
            /\ storeRevoked' = r.srev
            /\ revokedOk' = IF r.err = Nil THEN revokedOk \cup {token} ELSE revokedOk
            /\ revokedTwice' = IF r.err = Nil /\ token \in revokedOk
                               THEN revokedTwice \cup {token} ELSE revokedTwice
            /\ last' = [NoCall EXCEPT !.op = "RevokeToken", !.token = token,
                           !.err = r.err, !.up = up]
    /\ UNCHANGED <<wiring, config, now, issuances, localKeys, storeKeys, nextKey>>
    /\ UNCHANGED outsideSvc

IsTokenRevoked(token, up) ==
    /\ LET r == IF wiring = "main" THEN TokenService_IsTokenRevoked(token)
                ELSE Service_IsTokenRevoked(token, up) IN
       last' = [NoCall EXCEPT !.op = "IsTokenRevoked", !.token = token,
                   !.err = r.err, !.revoked = r.revoked, !.up = up]
    /\ UNCHANGED <<wiring, config, now, issuances, localKeys, storeKeys,
                   storeRevoked, nextKey, revokedOk, revokedTwice>>
    /\ UNCHANGED outsideSvc

\* KeyManager.RotateKey, on the provider of the key-managed token.Service
RotateKey(tokenType, up) ==
    /\ wiring # "main"
    /\ nextKey <= MaxKeys
    /\ LET r == KeyManager_RotateKey(tokenType, up) IN
       /\ localKeys' = r.keys
       /\ storeKeys' = r.skeys
       /\ nextKey' = r.nk
       /\ last' = [NoCall EXCEPT !.op = "RotateKey", !.kind = tokenType,
                      !.err = r.err, !.up = up]
    /\ UNCHANGED <<wiring, config, now, issuances, storeRevoked, revokedOk,
                   revokedTwice>>
    /\ UNCHANGED outsideSvc

\* time passes; the store drops the entries whose expiry is reached, and the
\* record of the last call is of the past
Tick ==
    /\ now < MaxTime
    /\ now' = now + 1
    /\ storeRevoked' = Restrict(storeRevoked,
          {t \in DOMAIN storeRevoked : now + 1 < storeRevoked[t].until})
    /\ last' = NoCall
    /\ UNCHANGED <<wiring, config, issuances, localKeys, storeKeys, nextKey,
                   revokedOk, revokedTwice>>
    /\ UNCHANGED outsideSvc

Next ==
    \/ \E op \in TokenType, claims \in TokenClaims, up \in KeyStoreOutcomes :
          GenerateToken(op, claims, up)
    \/ \E token \in issued, tokenType \in TokenType,
          upRev \in StoreOutcomes, upKey \in KeyStoreOutcomes :
          ValidateToken(token, tokenType, upRev, upKey)
    \/ \E token \in issued, up \in StoreOutcomes : RevokeToken(token, up)
    \/ \E token \in issued, up \in StoreOutcomes : IsTokenRevoked(token, up)
    \/ \E tokenType \in TokenType, up \in KeyStoreOutcomes : RotateKey(tokenType, up)
    \/ Tick

Spec == Init /\ [][Next]_vars

\* ------------------------------------- the key managers, step by step
\* Each goroutine runs one call at a time; a step is one statement of
\* key_manager.go that touches the mutex, the key map, the random source
\* or the shared store.
InstInit ==
    /\ tier \in {"local", "distributed"}
    /\ instOf \in {f \in [Procs -> Instances] : f[1] = 1}
    /\ KMIdle
    /\ PwIdle
    /\ UserIdle
    /\ wiring = IF tier = "local" THEN "CreateTokenService" ELSE "CreateUserService"
    /\ config = NewTokenConfig(wiring, 1, LongLived)
    /\ now = 0
    /\ issuances = {}
    /\ localKeys = << >>
    /\ storeKeys = << >>
    /\ storeRevoked = << >>
    /\ nextKey = 1
    /\ revokedOk = {}
    /\ revokedTwice = {}
    /\ last = NoCall

\* the calls in flight that have yet to draw a key
Reserved == Cardinality({q \in Procs : frame[q].res})

\* a further call may draw a key within the bound
CanDraw == randNext + Reserved <= MaxRand

Return(p) ==
    /\ pc' = [pc EXCEPT ![p] = "idle"]
    /\ frame' = [frame EXCEPT ![p] = NoFrame]

\* a caller invokes KeyManager.GetSigningKey(tokenType)
Call_GetSigningKey(p, tokenType) ==
    /\ pc[p] = "idle"
    /\ LET absent == /\ tokenType \notin DOMAIN mKeys[instOf[p]]
                     /\ (tier = "local" \/ tokenType \notin DOMAIN cacheKeys)
       IN  /\ absent => CanDraw
           /\ frame' = [frame EXCEPT ![p] = [NoFrame EXCEPT !.op = "GetSigningKey",
                            !.tokenType = tokenType, !.res = absent]]
    /\ pc' = [pc EXCEPT ![p] = IF tier = "local" THEN "RLock" ELSE "cache.Get"]
    /\ UNCHANGED <<tier, instOf, mKeys, mutex, cacheKeys, randNext, returned,
                   rotated, cacheFailed>>
    /\ UNCHANGED outsideKeys

\* a caller invokes KeyManager.RotateKey(tokenType)
Call_RotateKey(p, tokenType) ==
    /\ pc[p] = "idle"
    /\ CanDraw
    /\ frame' = [frame EXCEPT ![p] = [NoFrame EXCEPT !.op = "RotateKey",
                     !.tokenType = tokenType, !.res = TRUE]]
    /\ pc' = [pc EXCEPT ![p] = "rand.Read"]
    /\ rotated' = rotated \cup {<<instOf[p], tokenType>>}
    /\ UNCHANGED <<tier, instOf, mKeys, mutex, cacheKeys, randNext, returned,
                   cacheFailed>>
    /\ UNCHANGED outsideKeys

\* a key read that prefers the instance's local key to the store's
Redis_cacheGet_LocalFirst(p, up) ==
    /\ pc[p] = "cache.Get"
    /\ LET t == frame[p].tokenType IN
       IF t \in DOMAIN mKeys[instOf[p]]
       THEN /\ returned' = returned \cup
                  {[inst |-> instOf[p], tokenType |-> t, key |-> mKeys[instOf[p]][t]]}
            /\ Return(p)
            /\ UNCHANGED cacheFailed
       ELSE IF CacheService_Get(up, t \in DOMAIN cacheKeys) = Nil
       THEN /\ returned' = returned \cup
                  {[inst |-> instOf[p], tokenType |-> t,
                    key |-> DecodeString(cacheKeys[t])]}
            /\ Return(p)
            /\ cacheFailed' = (cacheFailed \/ ~up)
       ELSE /\ (frame[p].res \/ CanDraw)
            /\ frame' = [frame EXCEPT ![p].res = TRUE]
            /\ pc' = [pc EXCEPT ![p] = "RLock"]
            /\ cacheFailed' = (cacheFailed \/ ~up)
            /\ UNCHANGED returned
    /\ UNCHANGED <<tier, instOf, mKeys, mutex, cacheKeys, randNext, rotated>>
    /\ UNCHANGED outsideKeys

\* RedisKeyManager.GetSigningKey: m.cache.Get, then the decoded key or the
\* call of m.local.GetSigningKey
Redis_cacheGet(p, up) ==
    /\ pc[p] = "cache.Get"
    /\ LET t == frame[p].tokenType
           err == CacheService_Get(up, t \in DOMAIN cacheKeys)
       IN  IF err = Nil
           THEN /\ returned' = returned \cup
                      {[inst |-> instOf[p], tokenType |-> t,
                        key |-> DecodeString(cacheKeys[t])]}
                /\ Return(p)
           ELSE /\ (frame[p].res \/ t \in DOMAIN mKeys[instOf[p]] \/ CanDraw)
                /\ frame' = [frame EXCEPT ![p].res =
                                 frame[p].res \/ t \notin DOMAIN mKeys[instOf[p]]]
                /\ pc' = [pc EXCEPT ![p] = "RLock"]
                /\ UNCHANGED returned
    /\ cacheFailed' = (cacheFailed \/ ~up)
    /\ UNCHANGED <<tier, instOf, mKeys, mutex, cacheKeys, randNext, rotated>>
    /\ UNCHANGED outsideKeys

\* m.mutex.RLock(), lines 37 and 46: waits while a writer holds the lock or
\* is blocked in Lock()
Local_RLock(p) ==
    /\ pc[p] \in {"RLock", "RLock2"}
    /\ mutex[instOf[p]].writer = 0
    /\ mutex[instOf[p]].waiting = {}
    /\ mutex' = [mutex EXCEPT ![instOf[p]].readers = @ \cup {p}]
    /\ pc' = [pc EXCEPT ![p] = IF pc[p] = "RLock" THEN "read" ELSE "read2"]
    /\ UNCHANGED <<tier, instOf, mKeys, cacheKeys, randNext, frame, returned,
                   rotated, cacheFailed>>
    /\ UNCHANGED outsideKeys

\* LocalKeyManager.GetSigningKey lines 38-41: key, exists := m.keys[tokenType],
\* RUnlock, then the key is returned or RotateKey is called
Local_Read(p) ==
    /\ pc[p] = "read"
    /\ mutex' = [mutex EXCEPT ![instOf[p]].readers = @ \ {p}]
    /\ LET t == frame[p].tokenType
           keys == mKeys[instOf[p]]
       IN  IF t \in DOMAIN keys
           THEN /\ returned' = returned \cup
                      {[inst |-> instOf[p], tokenType |-> t, key |-> keys[t]]}
                /\ Return(p)
           ELSE /\ frame' = [frame EXCEPT ![p].inner = TRUE]
                /\ pc' = [pc EXCEPT ![p] = "rand.Read"]
                /\ UNCHANGED returned
    /\ UNCHANGED <<tier, instOf, mKeys, cacheKeys, randNext, rotated, cacheFailed>>
    /\ UNCHANGED outsideKeys

\* RotateKey lines 56-59 and 101-104: 32 fresh bytes
Rand_Read(p) ==
    /\ pc[p] = "rand.Read"
    /\ randNext <= MaxRand
    /\ frame' = [frame EXCEPT ![p].key = randNext, ![p].res = FALSE]
    /\ randNext' = randNext + 1
    /\ pc' = [pc EXCEPT ![p] = IF tier = "distributed" /\ ~frame[p].inner
                               THEN "cache.Set" ELSE "Lock"]
    /\ UNCHANGED <<tier, instOf, mKeys, mutex, cacheKeys, returned, rotated,
                   cacheFailed>>
    /\ UNCHANGED outsideKeys

\* RedisKeyManager.RotateKey lines 106-108: the encoded key is written to the
\* store without expiry; the call returns nil unless the write failed
Redis_cacheSet(p, up) ==
    /\ pc[p] = "cache.Set"
    /\ IF CacheService_Set(up) = Nil
       THEN /\ cacheKeys' = Put(cacheKeys, frame[p].tokenType,
                                EncodeToString(frame[p].key))
            /\ Return(p)
       ELSE /\ pc' = [pc EXCEPT ![p] = "Lock"]
            /\ UNCHANGED <<cacheKeys, frame>>
    /\ cacheFailed' = (cacheFailed \/ ~up)
    /\ UNCHANGED <<tier, instOf, mKeys, mutex, randNext, returned, rotated>>
    /\ UNCHANGED outsideKeys

\* m.mutex.Lock(), lines 61 and 110: the call announces the writer ...
Local_Lock(p) ==
    /\ pc[p] = "Lock"
    /\ mutex' = [mutex EXCEPT ![instOf[p]].waiting = @ \cup {p}]
    /\ pc' = [pc EXCEPT ![p] = "Lock.wait"]
    /\ UNCHANGED <<tier, instOf, mKeys, cacheKeys, randNext, frame, returned,
                   rotated, cacheFailed>>
    /\ UNCHANGED outsideKeys

\* ... and returns once no reader and no writer holds the lock
Local_LockAcquired(p) ==
    /\ pc[p] = "Lock.wait"
    /\ mutex[instOf[p]].writer = 0
    /\ mutex[instOf[p]].readers = {}
    /\ mutex' = [mutex EXCEPT ![instOf[p]].writer = p,
                              ![instOf[p]].waiting = @ \ {p}]
    /\ pc' = [pc EXCEPT ![p] = "write"]
    /\ UNCHANGED <<tier, instOf, mKeys, cacheKeys, randNext, frame, returned,
                   rotated, cacheFailed>>
    /\ UNCHANGED outsideKeys

\* a key-map assignment that returns without Unlock
Local_Write_NoUnlock(p) ==
    /\ pc[p] = "write"
    /\ mKeys' = [mKeys EXCEPT ![instOf[p]] = Put(@, frame[p].tokenType, frame[p].key)]
    /\ IF frame[p].inner
       THEN /\ pc' = [pc EXCEPT ![p] = "RLock2"]
            /\ UNCHANGED frame
       ELSE Return(p)
    /\ UNCHANGED <<tier, instOf, mutex, cacheKeys, randNext, returned, rotated,
                   cacheFailed>>
    /\ UNCHANGED outsideKeys

\* lines 62-65 and 111-115: m.keys[tokenType] = key, Unlock, return nil; a
\* RotateKey that GetSigningKey called returns into line 46
Local_Write(p) ==
    /\ pc[p] = "write"
    /\ mKeys' = [mKeys EXCEPT ![instOf[p]] = Put(@, frame[p].tokenType, frame[p].key)]
    /\ mutex' = [mutex EXCEPT ![instOf[p]].writer = 0]
    /\ IF frame[p].inner
       THEN /\ pc' = [pc EXCEPT ![p] = "RLock2"]
            /\ UNCHANGED frame
       ELSE Return(p)
    /\ UNCHANGED <<tier, instOf, cacheKeys, randNext, returned, rotated, cacheFailed>>
    /\ UNCHANGED outsideKeys

\* LocalKeyManager.GetSigningKey lines 47-51: key = m.keys[tokenType],
\* RUnlock, return key
Local_Read2(p) ==
    /\ pc[p] = "read2"
    /\ mutex' = [mutex EXCEPT ![instOf[p]].readers = @ \ {p}]
    /\ returned' = returned \cup
          {[inst |-> instOf[p], tokenType |-> frame[p].tokenType,
            key |-> mKeys[instOf[p]][frame[p].tokenType]]}
    /\ Return(p)
    /\ UNCHANGED <<tier, instOf, mKeys, cacheKeys, randNext, rotated, cacheFailed>>
    /\ UNCHANGED outsideKeys

InstNext ==
    \/ \E p \in Procs, tokenType \in ContendedKinds : Call_GetSigningKey(p, tokenType)
    \/ \E p \in Procs, tokenType \in ContendedKinds : Call_RotateKey(p, tokenType)
    \/ \E p \in Procs, up \in BOOLEAN : Redis_cacheGet(p, up)
    \/ \E p \in Procs : Local_RLock(p)
    \/ \E p \in Procs : Local_Read(p)
    \/ \E p \in Procs : Rand_Read(p)
    \/ \E p \in Procs, up \in BOOLEAN : Redis_cacheSet(p, up)
    \/ \E p \in Procs : Local_Lock(p)
    \/ \E p \in Procs : Local_LockAcquired(p)
    \/ \E p \in Procs : Local_Write(p)
    \/ \E p \in Procs : Local_Read2(p)

SpecKeys == InstInit /\ [][InstNext]_vars

\* the statements of the call goroutine p is in
Step(p) ==
    \/ \E up \in BOOLEAN : Redis_cacheGet(p, up)
    \/ Local_RLock(p)
    \/ Local_Read(p)
    \/ Rand_Read(p)
    \/ \E up \in BOOLEAN : Redis_cacheSet(p, up)
    \/ Local_Lock(p)
    \/ Local_LockAcquired(p)
    \/ Local_Write(p)
    \/ Local_Read2(p)

\* the scheduler runs every goroutine that can run, and calls to the store
\* and to rand.Read return
SpecKeysFair == SpecKeys /\ \A p \in Procs : WF_vars(Step(p))

\* ------------------------------------------- the password service
PwInit ==
    /\ passwordConfig \in PasswordConfigs
    /\ pwLast = NoPwCall
    /\ hasherCalls = << >>
    /\ UserIdle
    /\ tier = "local"
    /\ instOf = [p \in Procs |-> 1]
    /\ KMIdle
    /\ wiring = "CreateUserService"
    /\ config = NewTokenConfig(wiring, 1, LongLived)
    /\ now = 0
    /\ issuances = {}
    /\ localKeys = << >>
    /\ storeKeys = << >>
    /\ storeRevoked = << >>
    /\ nextKey = 1
    /\ revokedOk = {}
    /\ revokedTwice = {}
    /\ last = NoCall

\* a caller asks for a random password; entropy.Read fills the buffer with
\* randomBytes, or fails (no bytes)
GenerateRandomPassword(randomBytes) ==
    /\ pwLast.op = "none"
    /\ LET r == Service_GenerateRandomPassword(passwordConfig, randomBytes) IN
       pwLast' = [op |-> "GenerateRandomPassword", password |-> r.password,
                  randomBytes |-> randomBytes, err |-> r.err]
    /\ UNCHANGED <<passwordConfig, hasherCalls>>
    /\ UNCHANGED outsidePw

\* a caller submits a password for validation
ValidatePassword(password) ==
    /\ pwLast.op = "none"
    /\ pwLast' = [op |-> "ValidatePassword", password |-> password,
                  randomBytes |-> << >>,
                  err |-> Service_ValidatePassword(passwordConfig, password)]
    /\ UNCHANGED <<passwordConfig, hasherCalls>>
    /\ UNCHANGED outsidePw

\* a caller asks for the hash of a password; a password that fails the
\* validation never reaches bcrypt
HashPassword(password, ok) ==
    /\ pwLast.op = "none"
    /\ Service_ValidatePassword(passwordConfig, password) # Nil => ok
    /\ LET r == Service_HashPassword(passwordConfig, password, ok) IN
       /\ pwLast' = [op |-> "HashPassword", password |-> password,
                     randomBytes |-> << >>, err |-> r.err]
       /\ hasherCalls' = hasherCalls \o r.hashed
    /\ UNCHANGED passwordConfig
    /\ UNCHANGED outsidePw

\* a caller checks a password against a stored hash
VerifyPassword(password, hash) ==
    /\ pwLast.op = "none"
    /\ pwLast' = [op |-> "VerifyPassword", password |-> password,
                  randomBytes |-> << >>,
                  err |-> Service_VerifyPassword(password, hash)]
    /\ UNCHANGED <<passwordConfig, hasherCalls>>
    /\ UNCHANGED outsidePw

\* what entropy.Read can deliver for the configured policy (of the buffers
\* too long to enumerate, those that repeat one byte), and the passwords a
\* caller can submit; a behaviour makes one call
EntropyReads ==
    IF pwLast.op # "none" THEN {}
    ELSE IF passwordConfig.MinLength <= MaxMinLength
    THEN [1..GeneratedLength(passwordConfig) -> ByteSamples] \cup {<< >>}
    ELSE {[i \in 1..GeneratedLength(passwordConfig) |-> b] : b \in ByteSamples}
         \cup {<< >>}

Submitted ==
    IF pwLast.op = "none" THEN PasswordInputs \cup DictionaryInputs ELSE {}

PwNext ==
    \/ \E randomBytes \in EntropyReads : GenerateRandomPassword(randomBytes)
    \/ \E password \in Submitted : ValidatePassword(password)
    \/ \E password \in Submitted, ok \in BOOLEAN : HashPassword(password, ok)
    \/ \E password \in VerifyPasswords, hash \in StoredHashes :
          VerifyPassword(password, hash)

SpecPassword == PwInit /\ [][PwNext]_vars

\* ------------------------------------- user.Service and the HTTP middleware
\* The wirings that build a user.Service: Factory.CreateUserService hands it
\* password.Service and token.Service over a RedisKeyManager, main.go hands it
\* services.PasswordService and services.TokenService.
UserWirings == {"CreateUserService", "main"}

\* the policy Factory.CreateUserService configures
FactoryPolicy ==
    [MinLength |-> 8, MaxLength |-> BcryptMaxLength, RequireUppercase |-> TRUE,
     RequireLowercase |-> TRUE, RequireNumbers |-> TRUE,
     RequireSpecialChars |-> TRUE]

ErrPasswordHashFailed == "failed to hash password"

ErrPasswordInvalid == "invalid password"

\* services.PasswordService.ValidatePassword: the error it returns
PasswordService_ValidatePassword(password) ==
    IF len(password) < 8 THEN "password must be at least 8 characters long"
    ELSE IF len(password) > 72 THEN "password must be at most 72 characters long"
    ELSE IF ~hasUpper(password) THEN ErrNoUpper
    ELSE IF ~hasLower(password) THEN ErrNoLower
    ELSE IF ~hasNumber(password) THEN ErrNoNumber
    ELSE IF ~hasSpecial(password) THEN ErrNoSpecial
    ELSE Nil

\* s.passwordService of user.Service
passwordService_ValidatePassword(password) ==
    IF wiring = "main" THEN PasswordService_ValidatePassword(password)
    ELSE Service_ValidatePassword(FactoryPolicy, password)

passwordService_HashPassword(password, ok) ==
    IF wiring = "main"
    THEN IF BCryptHasher_Hash(password, ok).err # Nil
         THEN [hash |-> NoHash, err |-> ErrPasswordHashFailed]
         ELSE [hash |-> BCryptHasher_Hash(password, ok).hash, err |-> Nil]
    ELSE [hash |-> Service_HashPassword(FactoryPolicy, password, ok).hash,
          err |-> Service_HashPassword(FactoryPolicy, password, ok).err]

passwordService_VerifyPassword(password, hash) ==
    IF wiring = "main"
    THEN IF BCryptHasher_Verify(password, hash) # Nil
         THEN ErrPasswordInvalid ELSE Nil
    ELSE Service_VerifyPassword(password, hash)

\* s.tokenService of user.Service and of the middleware: each returns, next
\* to its results, what it leaves in the local key map, the key counter and
\* the store's revocation entries
tokenService_GenerateToken(op, claims, up) ==
    IF wiring = "main"
    THEN [token |-> TokenService_GenerateToken(op, claims), err |-> Nil,
          keys |-> localKeys, nk |-> nextKey]
    ELSE Service_GenerateToken(op, claims, up)

tokenService_ValidateToken(token, tokenType, upRev, upKey) ==
    IF wiring = "main"
    THEN [claims |-> TokenService_ValidateToken(token, tokenType).claims,
          err |-> TokenService_ValidateToken(token, tokenType).err,
          keys |-> localKeys, nk |-> nextKey]
    ELSE [claims |-> Service_ValidateToken(token, tokenType, upRev, upKey).claims,
          err |-> Service_ValidateToken(token, tokenType, upRev, upKey).err,
          keys |-> Service_ValidateToken(token, tokenType, upRev, upKey).keys,
          nk |-> Service_ValidateToken(token, tokenType, upRev, upKey).nk]

tokenService_IsTokenRevoked(token, up) ==
    IF wiring = "main" THEN TokenService_IsTokenRevoked(token)
    ELSE Service_IsTokenRevoked(token, up)

tokenService_RevokeToken(token, up) ==
    IF wiring = "main"
    THEN [err |-> TokenService_RevokeToken(token), srev |-> storeRevoked]
    ELSE Service_RevokeToken(token, up)

\* the key read of ValidateToken happens only when the revocation check let
\* the token through
ReadsKey(token, upRev) ==
    /\ wiring # "main"
    /\ Service_IsTokenRevoked(token, upRev).err = Nil
    /\ ~Service_IsTokenRevoked(token, upRev).revoked

ErrInvalidCredentials == "invalid credentials"

ErrTokenRevoked == "token has been revoked"

ErrNotFound == "resource not found"

ErrGenerateAccess == "failed to generate access token"

ErrGenerateRefresh == "failed to generate refresh token"

ErrGenerateReset == "failed to generate reset token"

ErrInvalidRefreshToken == "invalid refresh token"

ErrInvalidResetToken == "invalid reset token"

ErrInvalidNewPassword == "invalid password: validation failed"

ErrUserNotFound == "user not found"

ErrUpdateUser == "failed to update user"

ErrUnauthorized == "401: invalid token"

\* the tokens handed out as role, and those the user service handed out
HandedOutAs(role) == {h.token : h \in {x \in handedOut : x.role = role}}

HandedOutBy(by, role) ==
    {h.token : h \in {x \in handedOut : x.role = role /\ x.by = by}}

\* Login, RequestPasswordReset and a direct issuance start only while fewer
\* than MaxHandedOut tokens have left through them
MaxHandedOut == 1

HasRoom ==
    Cardinality({h \in handedOut : h.by # "RefreshToken"}) < MaxHandedOut

\* The model changes a user's email only in the behaviours whose tokens are
\* verification tokens: Login, RequestPasswordReset and the direct issuance
\* of a refresh token start while every user has the registered email, and
\* UpdateUser runs while no token of theirs is out or being issued.
RegisteredEmails == \A u \in UserIDs : users[u].Email \in Emails

OnlyVerificationTokens ==
    /\ \A h \in handedOut : h.role = TokenTypeVerification
    /\ \A q \in DOMAIN upc : uframe[q].op # "Login"

\* a handler of goroutine p has returned
UReturn(p, op, token, err, up) ==
    /\ upc' = [upc EXCEPT ![p] = "idle"]
    /\ uframe' = [uframe EXCEPT ![p] = NoUFrame]
    /\ uLast' = [op |-> op, token |-> token, err |-> err, up |-> up]

\* goroutine p moves on to the next call of its handler
UGoto(p, label, f) ==
    /\ upc' = [upc EXCEPT ![p] = label]
    /\ uframe' = [uframe EXCEPT ![p] = f]
    /\ UNCHANGED uLast

\* one more successful return of op for token
Succeeded(op, token) ==
    IF <<op, token>> \in DOMAIN succeeded THEN succeeded[<<op, token>>] ELSE 0

CountSuccess(op, token) ==
    Put(succeeded, <<op, token>>,
        IF Succeeded(op, token) < 2 THEN Succeeded(op, token) + 1 ELSE 2)

\* the token service's state a handler step can leave behind
TokenState(keys, nk, srev) ==
    /\ nk <= MaxKeys + 1
    /\ localKeys' = keys
    /\ nextKey' = nk
    /\ storeRevoked' = srev
    /\ UNCHANGED <<wiring, config, now, issuances, storeKeys, revokedOk,
                   revokedTwice, last>>
    /\ UNCHANGED outsideUser

\* Login, lines 92-113: the user is looked up and the password verified
Login_Call(p, u, password, found) ==
    /\ upc[p] = "idle"
    /\ HasRoom /\ RegisteredEmails
    /\ IF ~found \/ passwordService_VerifyPassword(password, users[u].PasswordHash) # Nil
       THEN UReturn(p, "Login", NoToken, ErrInvalidCredentials, TRUE)
       ELSE UGoto(p, "Login.access",
                  [NoUFrame EXCEPT !.op = "Login",
                      !.claims = [UserID |-> u, Email |-> users[u].Email,
                                  Username |-> "", Role |-> users[u].Role,
                                  TokenType |-> TokenTypeAccess]])
    /\ TokenState(localKeys, nextKey, storeRevoked)
    /\ UNCHANGED <<users, handedOut, succeeded>>

\* Login, lines 122-125
Login_Access(p, up) ==
    /\ upc[p] = "Login.access"
    /\ LET r == tokenService_GenerateToken(TokenTypeAccess, uframe[p].claims, up) IN
       /\ IF r.err # Nil
          THEN UReturn(p, "Login", NoToken, ErrGenerateAccess, up)
          ELSE UGoto(p, "Login.refresh",
                     [uframe[p] EXCEPT !.access = r.token, !.up = up])
       /\ TokenState(r.keys, r.nk, storeRevoked)
    /\ UNCHANGED <<users, handedOut, succeeded>>

\* Login, lines 127-142: the same claims, of kind access, go into the refresh
\* token; a failed Update of the last login is only logged
Login_Refresh(p, up) ==
    /\ upc[p] = "Login.refresh"
    /\ LET r == tokenService_GenerateToken(TokenTypeRefresh, uframe[p].claims, up) IN
       /\ IF r.err # Nil
          THEN /\ UReturn(p, "Login", NoToken, ErrGenerateRefresh,
                          uframe[p].up /\ up)
               /\ UNCHANGED handedOut
          ELSE /\ UReturn(p, "Login", NoToken, Nil, uframe[p].up /\ up)
               /\ handedOut' = handedOut \cup
                     {[role |-> TokenTypeAccess, by |-> "Login",
                       token |-> uframe[p].access],
                      [role |-> TokenTypeRefresh, by |-> "Login",
                       token |-> r.token]}
       /\ TokenState(r.keys, r.nk, storeRevoked)
    /\ UNCHANGED <<users, succeeded>>

\* RefreshToken, lines 271-274
Refresh_Validate(p, token, upRev, upKey) ==
    /\ upc[p] = "idle"
    /\ ReadsKey(token, upRev) \/ upKey
    /\ LET r == tokenService_ValidateToken(token, TokenTypeRefresh, upRev, upKey) IN
       /\ IF r.err # Nil
          THEN UReturn(p, "RefreshToken", token, ErrInvalidRefreshToken,
                       upRev /\ upKey)
          ELSE UGoto(p, "Refresh.isRevoked",
                     [NoUFrame EXCEPT !.op = "RefreshToken", !.token = token,
                         !.claims = r.claims, !.up = upRev /\ upKey])
       /\ TokenState(r.keys, r.nk, storeRevoked)
    /\ UNCHANGED <<users, handedOut, succeeded>>

\* RefreshToken, lines 276-289
Refresh_IsRevoked(p, up) ==
    /\ upc[p] = "Refresh.isRevoked"
    /\ LET r == tokenService_IsTokenRevoked(uframe[p].token, up) IN
       IF r.err # Nil
       THEN UReturn(p, "RefreshToken", uframe[p].token, ErrRevocationCheck,
                    uframe[p].up /\ up)
       ELSE IF r.revoked
       THEN UReturn(p, "RefreshToken", uframe[p].token, ErrTokenRevoked,
                    uframe[p].up /\ up)
       ELSE UGoto(p, "Refresh.access",
                  [uframe[p] EXCEPT !.up = uframe[p].up /\ up,
                      !.claims = [UserID |-> uframe[p].claims.UserID,
                                  Email |-> uframe[p].claims.Email,
                                  Username |-> "",
                                  Role |-> uframe[p].claims.Role,
                                  TokenType |-> TokenTypeAccess]])
    /\ TokenState(localKeys, nextKey, storeRevoked)
    /\ UNCHANGED <<users, handedOut, succeeded>>

\* RefreshToken, lines 291-294
Refresh_Access(p, up) ==
    /\ upc[p] = "Refresh.access"
    /\ LET r == tokenService_GenerateToken(TokenTypeAccess, uframe[p].claims, up) IN
       /\ IF r.err # Nil
          THEN UReturn(p, "RefreshToken", uframe[p].token, ErrGenerateAccess,
                       uframe[p].up /\ up)
          ELSE UGoto(p, "Refresh.refresh",
                     [uframe[p] EXCEPT !.access = r.token,
                                       !.up = uframe[p].up /\ up])
       /\ TokenState(r.keys, r.nk, storeRevoked)
    /\ UNCHANGED <<users, handedOut, succeeded>>

\* RefreshToken, lines 296-299
Refresh_Refresh(p, up) ==
    /\ upc[p] = "Refresh.refresh"
    /\ LET r == tokenService_GenerateToken(TokenTypeRefresh, uframe[p].claims, up) IN
       /\ IF r.err # Nil
          THEN UReturn(p, "RefreshToken", uframe[p].token, ErrGenerateRefresh,
                       uframe[p].up /\ up)
          ELSE UGoto(p, "Refresh.revoke",
                     [uframe[p] EXCEPT !.refresh = r.token,
                                       !.up = uframe[p].up /\ up])
       /\ TokenState(r.keys, r.nk, storeRevoked)
    /\ UNCHANGED <<users, handedOut, succeeded>>

\* RefreshToken, lines 302-309: a failed revocation of the old token is only
\* logged
Refresh_Revoke(p, up) ==
    /\ upc[p] = "Refresh.revoke"
    /\ LET r == tokenService_RevokeToken(uframe[p].token, up) IN
       TokenState(localKeys, nextKey, r.srev)
    /\ UReturn(p, "RefreshToken", uframe[p].token, Nil, uframe[p].up /\ up)
    /\ handedOut' = handedOut \cup
          {[role |-> TokenTypeAccess, by |-> "RefreshToken",
            token |-> uframe[p].access],
           [role |-> TokenTypeRefresh, by |-> "RefreshToken",
            token |-> uframe[p].refresh]}
    /\ succeeded' = CountSuccess("RefreshToken", uframe[p].token)
    /\ UNCHANGED users

\* RequestPasswordReset: the token leaves in the link of the published event;
\* a failed publication is only logged
RequestPasswordReset(p, u, found, up) ==
    /\ upc[p] = "idle"
    /\ HasRoom /\ RegisteredEmails
    /\ found \/ up
    /\ LET r == tokenService_GenerateToken(TokenTypeReset,
                   [UserID |-> u, Email |-> users[u].Email, Username |-> "",
                    Role |-> "", TokenType |-> TokenTypeReset], up) IN
       IF ~found
       THEN /\ UReturn(p, "RequestPasswordReset", NoToken, ErrNotFound, TRUE)
            /\ TokenState(localKeys, nextKey, storeRevoked)
            /\ UNCHANGED handedOut
       ELSE /\ UReturn(p, "RequestPasswordReset", r.token,
                       IF r.err # Nil THEN ErrGenerateReset ELSE Nil, up)
            /\ TokenState(r.keys, r.nk, storeRevoked)
            /\ handedOut' = IF r.err # Nil THEN handedOut
                  ELSE handedOut \cup {[role |-> TokenTypeReset,
                                        by |-> "RequestPasswordReset",
                                        token |-> r.token]}
    /\ UNCHANGED <<users, succeeded>>

\* ResetPassword, lines 229-236
Reset_Validate(p, token, newPassword, upRev, upKey) ==
    /\ upc[p] = "idle"
    /\ ReadsKey(token, upRev) \/ upKey
    /\ LET r == tokenService_ValidateToken(token, TokenTypeReset, upRev, upKey) IN
       /\ IF r.err # Nil
          THEN UReturn(p, "ResetPassword", token, ErrInvalidResetToken,
                       upRev /\ upKey)
          ELSE IF passwordService_ValidatePassword(newPassword) # Nil
          THEN UReturn(p, "ResetPassword", token, ErrInvalidNewPassword,
                       upRev /\ upKey)
          ELSE UGoto(p, "Reset.update",
                     [NoUFrame EXCEPT !.op = "ResetPassword", !.token = token,
                         !.claims = r.claims, !.newPassword = newPassword,
                         !.up = upRev /\ upKey])
       /\ TokenState(r.keys, r.nk, storeRevoked)
    /\ UNCHANGED <<users, handedOut, succeeded>>

\* ResetPassword, lines 238-259: GetByID, HashPassword, UpdatePassword and
\* Update; found, ok and saved are the outcomes of the repository and of bcrypt
Reset_Update(p, found, ok, saved) ==
    /\ upc[p] = "Reset.update"
    /\ found \/ (ok /\ saved)
    /\ ok \/ saved
    /\ LET h == passwordService_HashPassword(uframe[p].newPassword, ok)
           u == uframe[p].claims.UserID
       IN  IF ~found
           THEN /\ UReturn(p, "ResetPassword", uframe[p].token, ErrUserNotFound,
                           uframe[p].up)
                /\ UNCHANGED users
           ELSE IF h.err # Nil
           THEN /\ UReturn(p, "ResetPassword", uframe[p].token, ErrFailedToHash,
                           uframe[p].up)
                /\ UNCHANGED users
           ELSE IF ~saved
           THEN /\ UReturn(p, "ResetPassword", uframe[p].token, ErrUpdateUser,
                           uframe[p].up)
                /\ UNCHANGED users
           ELSE /\ UGoto(p, "Reset.revoke", uframe[p])
                /\ users' = [users EXCEPT ![u].PasswordHash = h.hash]
    /\ TokenState(localKeys, nextKey, storeRevoked)
    /\ UNCHANGED <<handedOut, succeeded>>

\* ResetPassword, lines 262-266: a failed revocation of the reset token is
\* only logged
Reset_Revoke(p, up) ==
    /\ upc[p] = "Reset.revoke"
    /\ LET r == tokenService_RevokeToken(uframe[p].token, up) IN
       TokenState(localKeys, nextKey, r.srev)
    /\ UReturn(p, "ResetPassword", uframe[p].token, Nil, uframe[p].up /\ up)
    /\ succeeded' = CountSuccess("ResetPassword", uframe[p].token)
    /\ UNCHANGED <<users, handedOut>>

\* AuthMiddleware.Authenticate: the bearer token is validated as an access
\* token, and the request goes on when it validates
Authenticate(p, token, upRev, upKey) ==
    /\ upc[p] = "idle"
    /\ ReadsKey(token, upRev) \/ upKey
    /\ LET r == tokenService_ValidateToken(token, TokenTypeAccess, upRev, upKey) IN
       /\ UReturn(p, "Authenticate", token,
                  IF r.err # Nil THEN ErrUnauthorized ELSE Nil, upRev /\ upKey)
       /\ TokenState(r.keys, r.nk, storeRevoked)
    /\ UNCHANGED <<users, handedOut, succeeded>>

\* a client of the token service issues a refresh token whose claims name
\* the kind refresh
GenerateRefreshToken(u, up) ==
    /\ HasRoom /\ RegisteredEmails
    /\ LET r == tokenService_GenerateToken(TokenTypeRefresh,
                   [UserID |-> u, Email |-> users[u].Email, Username |-> "",
                    Role |-> users[u].Role, TokenType |-> TokenTypeRefresh], up) IN
       /\ handedOut' = IF r.err # Nil THEN handedOut
             ELSE handedOut \cup {[role |-> TokenTypeRefresh,
                                   by |-> "GenerateRefreshToken",
                                   token |-> r.token]}
       /\ TokenState(r.keys, r.nk, storeRevoked)
    /\ uLast' = NoULast
    /\ UNCHANGED <<users, upc, uframe, succeeded>>

\* a client of the token service issues a verification token for a user
GenerateVerificationToken(u, up) ==
    /\ HasRoom
    /\ LET r == tokenService_GenerateToken(TokenTypeVerification,
                   [UserID |-> u, Email |-> users[u].Email, Username |-> "",
                    Role |-> users[u].Role,
                    TokenType |-> TokenTypeVerification], up) IN
       /\ handedOut' = IF r.err # Nil THEN handedOut
             ELSE handedOut \cup {[role |-> TokenTypeVerification,
                                   by |-> "GenerateVerificationToken",
                                   token |-> r.token]}
       /\ TokenState(r.keys, r.nk, storeRevoked)
    /\ uLast' = NoULast
    /\ UNCHANGED <<users, upc, uframe, succeeded>>

ErrInvalidVerificationToken == "invalid verification token"

\* VerifyEmail: the token is validated as a verification token, the user
\* read, marked verified and active (models.User.VerifyEmail) and saved;
\* found and saved are the outcomes of the repository
VerifyEmail(p, token, found, saved, upRev, upKey) ==
    /\ upc[p] = "idle"
    /\ ReadsKey(token, upRev) \/ upKey
    /\ found \/ saved
    /\ LET r == tokenService_ValidateToken(token, TokenTypeVerification,
                                           upRev, upKey) IN
       /\ r.err # Nil => (found /\ saved)
       /\ IF r.err # Nil
          THEN /\ UReturn(p, "VerifyEmail", token, ErrInvalidVerificationToken,
                          upRev /\ upKey)
               /\ UNCHANGED users
          ELSE IF ~found
          THEN /\ UReturn(p, "VerifyEmail", token, ErrUserNotFound,
                          upRev /\ upKey)
               /\ UNCHANGED users
          ELSE IF ~saved
          THEN /\ UReturn(p, "VerifyEmail", token, ErrUpdateUser,
                          upRev /\ upKey)
               /\ UNCHANGED users
          ELSE /\ UReturn(p, "VerifyEmail", token, Nil, upRev /\ upKey)
               /\ users' = [users EXCEPT
                     ![r.claims.UserID].EmailVerified = TRUE,
                     ![r.claims.UserID].Status = UserStatusActive]
       /\ TokenState(r.keys, r.nk, storeRevoked)
    /\ UNCHANGED <<handedOut, succeeded>>

\* UpdateUser with input.Email = email ("": no change asked for): a changed
\* email sets the status to pending; the only user has no one to collide with
UpdateUser(p, u, email, found, saved) ==
    /\ upc[p] = "idle"
    /\ OnlyVerificationTokens
    /\ found \/ saved
    /\ IF ~found
       THEN /\ UReturn(p, "UpdateUser", NoToken, ErrUserNotFound, TRUE)
            /\ UNCHANGED users
       ELSE IF ~saved
       THEN /\ UReturn(p, "UpdateUser", NoToken, ErrUpdateUser, TRUE)
            /\ UNCHANGED users
       ELSE /\ UReturn(p, "UpdateUser", NoToken, Nil, TRUE)
            /\ users' = IF email # "" /\ email # users[u].Email
                        THEN [users EXCEPT ![u].Email = email,
                                           ![u].Status = UserStatusPending]
                        ELSE users
    /\ TokenState(localKeys, nextKey, storeRevoked)
    /\ UNCHANGED <<handedOut, succeeded>>

\* time passes; the store drops the entries whose expiry is reached, and the
\* record of the last return is of the past
UserTick ==
    /\ now < MaxTime
    /\ now' = now + 1
    /\ storeRevoked' = Restrict(storeRevoked,
          {t \in DOMAIN storeRevoked : now + 1 < storeRevoked[t].until})
    /\ uLast' = NoULast
    /\ UNCHANGED <<wiring, config, issuances, localKeys, storeKeys, nextKey,
                   revokedOk, revokedTwice, last>>
    /\ UNCHANGED <<users, upc, uframe, handedOut, succeeded>>
    /\ UNCHANGED outsideUser

\* the user service of either wiring over an empty store; an access token
\* lives shorter than a refresh token
UserInit ==
    /\ tier = "local"
    /\ instOf = [p \in Procs |-> 1]
    /\ KMIdle
    /\ PwIdle
    /\ UserIdle
    /\ wiring \in UserWirings
    /\ \E a \in 1..(LongLived - 1) : config = NewTokenConfig(wiring, a, LongLived)
    /\ now = 0
    /\ issuances = {}
    /\ localKeys = << >>
    /\ storeKeys = << >>
    /\ storeRevoked = << >>
    /\ nextKey = 1
    /\ revokedOk = {}
    /\ revokedTwice = {}
    /\ last = NoCall

LoginPasswords == {RegisteredPassword, NewPassword}

ResetPasswords == {NewPassword, WeakPassword}

UserNext ==
    \/ \E p \in Procs, u \in UserIDs, password \in LoginPasswords, found \in BOOLEAN :
          Login_Call(p, u, password, found)
    \/ \E p \in Procs, up \in KeyStoreOutcomes : Login_Access(p, up)
    \/ \E p \in Procs, up \in KeyStoreOutcomes : Login_Refresh(p, up)
    \/ \E p \in Procs, token \in HandedOutAs(TokenTypeRefresh),
          upRev \in StoreOutcomes, upKey \in KeyStoreOutcomes :
          Refresh_Validate(p, token, upRev, upKey)
    \/ \E p \in Procs, up \in StoreOutcomes : Refresh_IsRevoked(p, up)
    \/ \E p \in Procs, up \in KeyStoreOutcomes : Refresh_Access(p, up)
    \/ \E p \in Procs, up \in KeyStoreOutcomes : Refresh_Refresh(p, up)
    \/ \E p \in Procs, up \in StoreOutcomes : Refresh_Revoke(p, up)
    \/ \E p \in Procs, u \in UserIDs, found \in BOOLEAN, up \in KeyStoreOutcomes :
          RequestPasswordReset(p, u, found, up)
    \/ \E p \in Procs, token \in HandedOutAs(TokenTypeReset),
          newPassword \in ResetPasswords,
          upRev \in StoreOutcomes, upKey \in KeyStoreOutcomes :
          Reset_Validate(p, token, newPassword, upRev, upKey)
    \/ \E p \in Procs, found \in BOOLEAN, ok \in BOOLEAN, saved \in BOOLEAN :
          Reset_Update(p, found, ok, saved)
    \/ \E p \in Procs, up \in StoreOutcomes : Reset_Revoke(p, up)
    \/ \E p \in Procs,
          token \in HandedOutAs(TokenTypeAccess) \cup HandedOutAs(TokenTypeRefresh),
          upRev \in StoreOutcomes, upKey \in KeyStoreOutcomes :
          Authenticate(p, token, upRev, upKey)
    \/ \E u \in UserIDs, up \in KeyStoreOutcomes : GenerateRefreshToken(u, up)
    \/ \E u \in UserIDs, up \in KeyStoreOutcomes :
          GenerateVerificationToken(u, up)
    \/ \E p \in Procs, token \in HandedOutAs(TokenTypeVerification),
          found \in BOOLEAN, saved \in BOOLEAN,
          upRev \in StoreOutcomes, upKey \in KeyStoreOutcomes :
          VerifyEmail(p, token, found, saved, upRev, upKey)
    \/ \E p \in Procs, u \in UserIDs, email \in {"", OtherEmail},
          found \in BOOLEAN, saved \in BOOLEAN :
          UpdateUser(p, u, email, found, saved)
    \/ UserTick

SpecUser == UserInit /\ [][UserNext]_vars

\* ------------------------------------------------------------ properties
OnService == wiring # "main"

Validated == last.op = "ValidateToken"

\* the token's signature verifies under the key GetSigningKey returns for
\* kind, whatever the store answers to the key read
SignatureVerifies(token, kind) ==
    \A up \in KeyStoreOutcomes : KeyManager_GetSigningKey(kind, up).key = token.sig

Unexpired(token) == now < token.payload.exp

MarkerPresent(token) == token \in DOMAIN storeRevoked

\* the store answered the read or write of the last call
StoreReachable == last.up

\* the errors that stand for InvalidToken: wrong signature or wrong kind
InvalidTokenErrors == {ErrSignature, ErrTokenTypeMismatch, ErrInvalidToken}

ExpiredErrors == {ErrExpired, ErrTokenExpired}

\* C1: token.Service.ValidateToken returns claims if and only if the
\* signature verifies under the key of the requested kind, the token is
\* unexpired, its embedded kind is the requested kind and the registry holds
\* no revocation marker for it.
C1_ValidIffAllFour ==
    (OnService /\ Validated /\ StoreReachable) =>
        ((last.err = Nil) <=>
            /\ SignatureVerifies(last.token, last.kind)
            /\ Unexpired(last.token)
            /\ last.token.payload.token_type = last.kind
            /\ ~MarkerPresent(last.token))

\* C2: validating a token against the kind it was issued for, before expiry,
\* never revoked and with its key still in place, succeeds and returns the
\* claims it was issued for, Role included.
C2_RoundTrip ==
    \A i \in issuances :
        (/\ OnService /\ Validated /\ StoreReachable
         /\ last.token = i.token
         /\ last.kind = i.claims.TokenType
         /\ Unexpired(i.token)
         /\ i.token \notin revokedOk
         /\ SignatureVerifies(i.token, last.kind))
        => (last.err = Nil /\ last.claims = i.claims)

\* C3: once RevokeToken(token) has returned nil, every ValidateToken of the
\* token before the token's own expiry fails with the revoked-token error
\* (the store being reachable).
C3_RevokedUntilExpiry ==
    (/\ OnService /\ Validated /\ StoreReachable
     /\ last.token \in revokedOk
     /\ Unexpired(last.token))
    => last.err = ErrRevoked

\* C4: ValidateToken returns claims only when the revocation check answered
\* "not revoked", the signature verified under the key of the expected kind,
\* the token was unexpired and its kind was the expected one; in every other
\* case it returns an error and no claims.
C4_ValidationSound ==
    (OnService /\ Validated) =>
        /\ (last.err = Nil) <=> (last.claims # NoClaims)
        /\ (last.err = Nil) =>
              /\ Service_IsTokenRevoked(last.token, last.up) = [revoked |-> FALSE, err |-> Nil]
              /\ \E up \in KeyStoreOutcomes :
                    KeyManager_GetSigningKey(last.kind, up).key = last.token.sig
              /\ Unexpired(last.token)
              /\ last.token.payload.token_type = last.kind

\* C4 witness: a correctly signed, unexpired token of the requested kind was
\* validated while the revocation check did not answer "not revoked", and the
\* call returned an error and no claims.
C4_Witness ==
    /\ OnService /\ Validated
    /\ SignatureVerifies(last.token, last.kind)
    /\ Unexpired(last.token)
    /\ last.token.payload.token_type = last.kind
    /\ Service_IsTokenRevoked(last.token, last.up) # [revoked |-> FALSE, err |-> Nil]
    /\ last.err # Nil
    /\ last.claims = NoClaims

\* C5: when the store read of the revocation check fails, IsTokenRevoked
\* returns an error and ValidateToken returns an error and no claims.
C5_FailClosed ==
    (/\ OnService
     /\ last.op \in {"IsTokenRevoked", "ValidateToken"}
     /\ ~StoreReachable)
    => (last.err # Nil /\ last.claims = NoClaims)

\* C5 witness: the store read failed during the validation of a token that is
\* correctly signed, unexpired, of the requested kind and without a marker,
\* and the validation returned the revocation-check error.
C5_Witness ==
    /\ OnService /\ Validated /\ ~StoreReachable
    /\ SignatureVerifies(last.token, last.kind)
    /\ Unexpired(last.token)
    /\ last.token.payload.token_type = last.kind
    /\ ~MarkerPresent(last.token)
    /\ last.err = ErrRevocationCheck
    /\ last.claims = NoClaims

\* C6: with the store reachable, IsTokenRevoked returns no error, and true
\* exactly when a live marker for the token exists.
C6_ExistenceCheck ==
    (OnService /\ last.op = "IsTokenRevoked" /\ StoreReachable) =>
        (last.err = Nil /\ (last.revoked <=> MarkerPresent(last.token)))

\* C7: in every implementation of TokenService, after RevokeToken(t) has
\* returned nil and before t expires, IsTokenRevoked(t) returns true and
\* ValidateToken(t, kind) fails (the store being reachable).
C7_RevokeTakesEffect ==
    (/\ last.op \in {"IsTokenRevoked", "ValidateToken"}
     /\ StoreReachable
     /\ last.token \in revokedOk
     /\ Unexpired(last.token))
    => IF Validated THEN last.err # Nil
       ELSE last.err = Nil /\ last.revoked

\* C8: validating an unexpired, never revoked token against a kind other
\* than the one embedded in it fails with the InvalidToken error (the store
\* being reachable).
C8_WrongKindIsInvalidToken ==
    (/\ Validated /\ StoreReachable
     /\ last.kind # last.token.payload.token_type
     /\ Unexpired(last.token)
     /\ last.token \notin revokedOk)
    => (last.err \in InvalidTokenErrors /\ last.claims = NoClaims)

\* C9: the token a Generate*Token method of token.Service issues for kind K
\* expires at issued-at + K's duration, embeds K and is signed with the key
\* of K, whatever TokenType the claims argument carries.
C9_IssuedForKind ==
    (OnService /\ last.op = "GenerateToken" /\ last.err = Nil) =>
        /\ last.token.payload.exp = last.token.payload.iat + Duration(last.kind)
        /\ last.token.payload.token_type = last.kind
        /\ last.token.sig = KeyManager_GetSigningKey(last.kind, last.up).key

\* C10: a never revoked token validated against its own kind after its
\* expiry, its key still in place and the store reachable, fails with the
\* expired-token error.
C10_ExpiredError ==
    (/\ Validated /\ StoreReachable
     /\ last.kind = last.token.payload.token_type
     /\ last.token \notin revokedOk
     /\ SignatureVerifies(last.token, last.kind)
     /\ now > last.token.payload.exp)
    => last.err \in ExpiredErrors

\* C11: token.Service.ValidateToken checks revocation first, then the
\* signature under the key of the expected kind, then expiry, then the
\* embedded kind: an error of the registry read is reported whatever else is
\* wrong with the token, a token the registry holds a marker for is reported
\* as revoked even when it is also expired, wrongly signed or of another kind,
\* an expiry error is reported only for a verified signature, and a kind
\* error only for a verified signature and an unexpired token.
C11_CheckOrder ==
    (OnService /\ Validated) =>
        /\ Service_IsTokenRevoked(last.token, last.up).err # Nil
              => last.err = ErrRevocationCheck
        /\ (StoreReachable /\ MarkerPresent(last.token)) => last.err = ErrRevoked
        /\ last.err = ErrExpired =>
              \E up \in KeyStoreOutcomes :
                  KeyManager_GetSigningKey(last.kind, up).key = last.token.sig
        /\ last.err = ErrTokenTypeMismatch =>
              /\ \E up \in KeyStoreOutcomes :
                    KeyManager_GetSigningKey(last.kind, up).key = last.token.sig
              /\ Unexpired(last.token)

\* C11 witness: a token the registry holds a marker for and that is also
\* expired, wrongly signed or of another kind was validated with the store
\* reachable, and was reported as revoked.
C11_Witness ==
    /\ OnService /\ Validated /\ StoreReachable
    /\ MarkerPresent(last.token)
    /\ \/ ~Unexpired(last.token)
       \/ ~SignatureVerifies(last.token, last.kind)
       \/ last.token.payload.token_type # last.kind
    /\ last.err = ErrRevoked

\* C12: with the store reachable, every RevokeToken of token.Service, the
\* first as well as a repeated one, returns no error and leaves the registry
\* with the one marker a single revocation made at that moment leaves: the
\* token is reported revoked by IsTokenRevoked and by ValidateToken against
\* every kind.
C12_RevokeIdempotent ==
    (OnService /\ last.op = "RevokeToken" /\ StoreReachable) =>
        /\ last.err = Nil
        /\ MarkerPresent(last.token)
        /\ storeRevoked[last.token] =
              [value |-> TRUE, until |-> ExpiresAt(Duration(TokenTypeAccess))]
        /\ Service_IsTokenRevoked(last.token, TRUE) = [revoked |-> TRUE, err |-> Nil]
        /\ \A kind \in TokenType, upKey \in KeyStoreOutcomes :
              Service_ValidateToken(last.token, kind, TRUE, upKey).err = ErrRevoked

\* C12 witness: RevokeToken has just returned nil for a token it had already
\* returned nil for, at a later moment than the token was issued.
C12_Witness ==
    /\ OnService /\ last.op = "RevokeToken" /\ StoreReachable
    /\ last.token \in revokedTwice
    /\ last.err = Nil
    /\ now > last.token.payload.iat
    /\ MarkerPresent(last.token)

\* C13: on a LocalKeyManager, as long as no caller has invoked
\* RotateKey(kind), every GetSigningKey(kind) call, concurrent ones included,
\* has returned one and the same key, and that key is still the key for kind
\* (a token signed with it still verifies).
C13_LazyProvisionAtomic ==
    tier = "local" =>
        \A r \in returned :
            <<r.inst, r.tokenType>> \notin rotated =>
                /\ r.tokenType \in DOMAIN mKeys[r.inst]
                /\ r.key = mKeys[r.inst][r.tokenType]

\* the wiring whose KeyManager is the LocalKeyManager alone
LocalOnly == wiring = "CreateTokenService"

\* right after RotateKey(kind) returned, the tokens of that kind issued so
\* far neither verify under the key of the kind nor pass ValidateToken
C14_AfterRotation ==
    (LocalOnly /\ last.op = "RotateKey") =>
        /\ LocalKeyManager_GetSigningKey(localKeys, last.kind).key = nextKey - 1
        /\ \A i \in issuances :
              i.token.payload.token_type = last.kind =>
                  /\ i.token.sig # LocalKeyManager_GetSigningKey(localKeys, last.kind).key
                  /\ \A upRev \in StoreOutcomes :
                        Service_ValidateToken(i.token, last.kind, upRev, TRUE).err # Nil

\* the key of a kind only ever changes to a key never drawn before
C14_NeverAnEarlierKey ==
    LocalOnly =>
        \A t \in DOMAIN localKeys :
            localKeys'[t] # localKeys[t] => localKeys'[t] = nextKey

\* C14: on the local-only provider RotateKey(kind) overwrites the key of kind
\* with a fresh one: after a second rotation every token of that kind issued
\* before it fails ValidateToken (its signature no longer verifies), and
\* GetSigningKey(kind) never again returns a key the kind had earlier.
C14_RotationOverwrites == []C14_AfterRotation /\ [][C14_NeverAnEarlierKey]_vars

\* C14 witness: the provider has run RotateKey(kind) twice, the second time at
\* a caller's request, and a token of that kind signed with the first key was
\* issued in between.
C14_Witness ==
    /\ LocalOnly /\ last.op = "RotateKey"
    /\ localKeys[last.kind] = 2
    /\ \E i \in issuances :
          /\ i.token.payload.token_type = last.kind
          /\ i.token.sig = 1

\* the wiring whose KeyManager is the RedisKeyManager
Distributed == wiring = "CreateUserService"

RotateKeyStep == last'.op = "RotateKey" /\ nextKey' = nextKey + 1

\* what a RotateKey step of the distributed tier does to the two tiers
C16_RotateKeyEffect ==
    (Distributed /\ RotateKeyStep) =>
        /\ last'.err = Nil
        /\ IF last'.up
           THEN /\ storeKeys' = Put(storeKeys, last'.kind, EncodeToString(nextKey))
                /\ localKeys' = localKeys
           ELSE /\ storeKeys' = storeKeys
                /\ localKeys' = Put(localKeys, last'.kind, nextKey)

\* a key written to the store stays there: it was written without expiry
C16_NoExpiry == \A t \in DOMAIN storeKeys : t \in DOMAIN storeKeys'

\* C16: on the distributed tier RotateKey(kind) draws a fresh key and writes
\* it, encoded, to the shared store without expiry; when the write succeeds
\* the local key map is left unchanged, when it fails the key is stored in
\* the local map only; the call returns nil either way.
C16_DistributedRotate == [][C16_RotateKeyEffect /\ C16_NoExpiry]_vars

\* C16 witness: a RotateKey whose store write failed has put its fresh key
\* into the local map while the store still holds an older key for the kind.
C16_Witness ==
    /\ Distributed /\ last.op = "RotateKey" /\ ~last.up
    /\ last.err = Nil
    /\ last.kind \in DOMAIN storeKeys
    /\ last.kind \in DOMAIN localKeys
    /\ localKeys[last.kind] = nextKey - 1
    /\ DecodeString(storeKeys[last.kind]) # localKeys[last.kind]

\* callers on both instances have invoked RotateKey(t), and every one of
\* those calls has returned
BothRotated(t) ==
    /\ \A i \in Instances : <<i, t>> \in rotated
    /\ \A q \in Procs : ~(frame[q].op = "RotateKey" /\ frame[q].tokenType = t)

\* C17: on the distributed tier with the store reachable throughout, once
\* RotateKey(kind) calls made on both instances, concurrently or not, have
\* all returned, a GetSigningKey(kind) on either instance returns the key the
\* store holds for kind, which is the key written last.
C17_LastWriteDecides ==
    [][\A p \in Procs :
          (/\ tier = "distributed"
           /\ pc[p] = "cache.Get" /\ pc'[p] = "idle"
           /\ ~cacheFailed'
           /\ BothRotated(frame[p].tokenType))
          => [inst |-> instOf[p], tokenType |-> frame[p].tokenType,
              key |-> DecodeString(cacheKeys[frame[p].tokenType])] \in returned']_vars

\* C17 witness: two instances rotated the key of a kind concurrently, the key
\* drawn first was written last, and afterwards GetSigningKey returned that
\* key on both instances; only the two rotations ever drew a key.
C17_Witness ==
    /\ tier = "distributed" /\ ~cacheFailed
    /\ instOf[2] = 2
    /\ \A p \in Procs : pc[p] = "idle"
    /\ randNext = 3
    /\ BothRotated(TokenTypeAccess)
    /\ cacheKeys[TokenTypeAccess] = EncodeToString(1)
    /\ \A i \in Instances :
          [inst |-> i, tokenType |-> TokenTypeAccess, key |-> 1] \in returned

\* the write lock is held for the key-map assignment only, the read lock for
\* the key-map reads only, and never both
C18_LockDiscipline ==
    \A p \in Procs :
        /\ mutex[instOf[p]].writer = p => pc[p] = "write"
        /\ p \in mutex[instOf[p]].readers => pc[p] \in {"read", "read2"}
        /\ pc[p] \in {"rand.Read", "cache.Set", "cache.Get"} =>
              /\ mutex[instOf[p]].writer # p
              /\ p \notin mutex[instOf[p]].readers
        /\ mutex[instOf[p]].writer # 0 => mutex[instOf[p]].readers = {}

\* some goroutine inside a call can always take a step
C18_NoDeadlock ==
    (\E p \in Procs : pc[p] # "idle") => \E p \in Procs : ENABLED Step(p)

\* C18: on both tiers the write lock of the local key map is held only for
\* the key-map assignment (not during key generation or a call to the shared
\* store) and readers hold only the read lock; no interleaving of concurrent
\* GetSigningKey and RotateKey calls deadlocks, and every call returns.
C18_LocksAndProgress ==
    /\ [](C18_LockDiscipline /\ C18_NoDeadlock)
    /\ \A p \in Procs : (pc[p] # "idle") ~> (pc[p] = "idle")

\* C18 witness: one goroutine holds the write lock at the key-map assignment
\* while the other, inside a GetSigningKey, waits for the read lock of the
\* same instance.
C18_Witness ==
    /\ instOf[2] = 1
    /\ mutex[1].writer = 1 /\ pc[1] = "write"
    /\ pc[2] \in {"RLock", "RLock2"}
    /\ frame[2].op = "GetSigningKey"

\* C19: whatever the policy and the random bytes, a password that
\* GenerateRandomPassword returns passes ValidatePassword under the same
\* policy.
C19_GeneratedPasses ==
    (pwLast.op = "GenerateRandomPassword" /\ pwLast.err = Nil) =>
        Service_ValidatePassword(passwordConfig, pwLast.password) = Nil

ThreeInARow(password) ==
    \E k \in 0..(Len(password) - 3) :
        password[k + 1] = password[k + 2] /\ password[k + 2] = password[k + 3]

\* C21: ValidatePassword rejects every password that contains 3 or more
\* consecutive repetitions of the same character, also one that satisfies
\* the length bounds and every enabled character class.
C21_RepeatedRejected ==
    (pwLast.op = "ValidatePassword" /\ ThreeInARow(pwLast.password)) =>
        pwLast.err # Nil

\* the password holds the word, whatever the case of its letters
HasWord(word, password) ==
    \E k \in 0..(Len(password) - Len(word)) :
        [i \in 1..Len(word) |-> ToUpper(password[k + i])]
            = [i \in 1..Len(word) |-> ToUpper(word[i])]

\* the password matches an entry of the deny-list other than the repetition
OnDenyList(password) ==
    \/ \E k \in 0..(Len(password) - 4) : \A i \in 1..4 : IsNumber(password[k + i])
    \/ \E word \in WeakWords : HasWord(word, password)

\* the password satisfies the length bounds and every enabled class
MeetsLengthAndClasses(password) ==
    /\ passwordConfig.MinLength <= len(password)
    /\ len(password) <= passwordConfig.MaxLength
    /\ passwordConfig.RequireUppercase =>
          \E i \in DOMAIN password : IsUpper(password[i])
    /\ passwordConfig.RequireLowercase =>
          \E i \in DOMAIN password : IsLower(password[i])
    /\ passwordConfig.RequireNumbers =>
          \E i \in DOMAIN password : IsNumber(password[i])
    /\ passwordConfig.RequireSpecialChars =>
          \E i \in DOMAIN password : IsPunctOrSymbol(password[i])

\* C22: ValidatePassword rejects every password that contains 4 or more
\* consecutive digits, the word "password" or "admin" in any letter case, or
\* the keyboard sequences qwerty/asdf; when the password satisfies the
\* length bounds and the enabled classes, the error is the weak-pattern
\* violation.
C22_WeakPatternRejected ==
    (pwLast.op = "ValidatePassword" /\ OnDenyList(pwLast.password)) =>
        /\ pwLast.err # Nil
        /\ MeetsLengthAndClasses(pwLast.password) => pwLast.err = ErrUnsafePattern

\* C22 witness: "Password1!" was submitted under a policy that enables all
\* four classes and was rejected as an unsafe pattern.
C22_Witness ==
    /\ pwLast.op = "ValidatePassword"
    /\ pwLast.password = <<"P","a","s","s","w","o","r","d","1","!">>
    /\ passwordConfig.RequireUppercase /\ passwordConfig.RequireLowercase
    /\ passwordConfig.RequireNumbers /\ passwordConfig.RequireSpecialChars
    /\ MeetsLengthAndClasses(pwLast.password)
    /\ pwLast.err = ErrUnsafePattern

\* the character classes the policy enables
EnabledSets ==
    (IF passwordConfig.RequireUppercase THEN {Range(upperLetters)} ELSE {})
    \cup (IF passwordConfig.RequireLowercase THEN {Range(lowerLetters)} ELSE {})
    \cup (IF passwordConfig.RequireNumbers THEN {Range(digits)} ELSE {})
    \cup (IF passwordConfig.RequireSpecialChars THEN {Range(specials)} ELSE {})

\* a and b hold the same characters, each as many times
IsPermutation(a, b) ==
    /\ Len(a) = Len(b)
    /\ \A c \in Range(a) \cup Range(b) :
          Cardinality({i \in DOMAIN a : a[i] = c})
              = Cardinality({i \in DOMAIN b : b[i] = c})

\* what C23 says of a password generated from the bytes read
GeneratedAsSpecified(password, randomBytes) ==
    LET n == Cardinality(EnabledSets)
        m == IF passwordConfig.MinLength > n THEN passwordConfig.MinLength ELSE n
    IN  /\ Len(password) = m + 4
        /\ \A S \in EnabledSets : \E i \in DOMAIN password : password[i] \in S
        /\ \A i \in DOMAIN password : password[i] \in UNION EnabledSets
        /\ IsPermutation(password,
                         Fill(Mandatory(passwordConfig, randomBytes),
                              AllChars(passwordConfig), randomBytes, m + 4))

\* C23: for every policy with at least one class enabled and a successful
\* entropy read, GenerateRandomPassword returns a password of length
\* max(number of enabled classes, MinLength) + 4 that contains a character of
\* every enabled class and only characters of enabled classes, a permutation
\* of the characters placed before the shuffle.
C23_GeneratedShape ==
    (/\ pwLast.op = "GenerateRandomPassword"
     /\ pwLast.randomBytes # << >>
     /\ EnabledSets # {}) =>
        /\ pwLast.err = Nil
        /\ GeneratedAsSpecified(pwLast.password, pwLast.randomBytes)

\* C24: HashPassword validates first: for a password ValidatePassword
\* rejects it returns an error that carries the policy violation and the
\* hasher is not invoked; the hasher is invoked only with passwords that
\* pass the validation.
C24_ValidatesFirst ==
    /\ \A i \in DOMAIN hasherCalls :
          Service_ValidatePassword(passwordConfig, hasherCalls[i]) = Nil
    /\ (/\ pwLast.op = "HashPassword"
        /\ Service_ValidatePassword(passwordConfig, pwLast.password) # Nil) =>
           /\ pwLast.err =
                 ValidationFailed(Service_ValidatePassword(passwordConfig,
                                                           pwLast.password))
           /\ hasherCalls = << >>

\* C24 witness: HashPassword has rejected "Password1!" as an unsafe pattern
\* without a call of the hasher, under a policy that the password otherwise
\* satisfies.
C24_Witness ==
    /\ pwLast.op = "HashPassword"
    /\ pwLast.password = <<"P","a","s","s","w","o","r","d","1","!">>
    /\ pwLast.err = ValidationFailed(ErrUnsafePattern)
    /\ hasherCalls = << >>

\* C25: VerifyPassword does not reveal the cause of a failure: a wrong
\* password, a hash of the wrong length and a hash that does not decode all
\* end in one and the same error, the one returned for a wrong password.
C25_UniformFailure ==
    (pwLast.op = "VerifyPassword" /\ pwLast.err # Nil) =>
        pwLast.err = VerificationFailed(ErrInvalidPassword)

\* the kind whose key signed the token
SignedAs(token) == token.payload.token_type

\* right after an issuance on the distributed tier, GetSigningKey returns
\* the key that signed the token whether or not the store answers
C26_AtIssuance ==
    (Distributed /\ last.op = "GenerateToken" /\ last.err = Nil) =>
        SignatureVerifies(last.token, SignedAs(last.token))

\* and it goes on doing so as long as no RotateKey is called
C26_Kept ==
    \A i \in issuances :
        (/\ Distributed
         /\ ~RotateKeyStep
         /\ SignatureVerifies(i.token, SignedAs(i.token))) =>
            SignatureVerifies(i.token, SignedAs(i.token))'

\* C26: with the distributed provider and no RotateKey in between,
\* GetSigningKey(kind) returns at validation the key it returned at
\* issuance, whatever the availability of the shared store at each of the
\* two calls: the token's signature verifies on the issuing instance at any
\* later time.
C26_KeyConsistency == []C26_AtIssuance /\ [][C26_Kept]_vars

\* the tokens Login or RefreshToken handed out as the refresh token of a pair
PairRefreshTokens ==
    HandedOutBy("Login", TokenTypeRefresh)
        \cup HandedOutBy("RefreshToken", TokenTypeRefresh)

\* the token was neither redeemed nor revoked before
Unused(op, token) ==
    Succeeded(op, token) = 0 /\ token \notin DOMAIN storeRevoked

\* C27: a RefreshToken call that carries the refresh token Login returned,
\* reaches the store in every call it makes and comes before the token's
\* expiry, with the token never redeemed or revoked before, returns success.
C27_LoginRefreshRedeemable ==
    ( /\ uLast.op = "RefreshToken"
      /\ uLast.token \in HandedOutBy("Login", TokenTypeRefresh)
      /\ uLast.up
      /\ now < uLast.token.payload.exp
      /\ Unused("RefreshToken", uLast.token) )
        => uLast.err = Nil

\* C28: the Authenticate middleware, which validates its bearer token as an
\* access token, rejects every token that Login or RefreshToken handed out
\* as a refresh token and that was never handed out as an access token.
C28_RefreshNotAccess ==
    ( /\ uLast.op = "Authenticate"
      /\ uLast.token \in PairRefreshTokens \ HandedOutAs(TokenTypeAccess) )
        => uLast.err # Nil

\* C29: over every interleaving of RefreshToken calls, whatever the store
\* answers, no refresh token is redeemed by more than one successful call.
C29_RedeemedOnce ==
    \A token \in HandedOutAs(TokenTypeRefresh) :
        Succeeded("RefreshToken", token) <= 1

\* C30: no password-reset token is used by more than one successful
\* ResetPassword call.
C30_ResetSingleUse ==
    \A token \in HandedOutAs(TokenTypeReset) :
        Succeeded("ResetPassword", token) <= 1

\* the tokens that live as long as GenerateAccessToken makes a token live and
\* that a RevokeToken call, the whole of Logout, has reported as revoked
RevokedAccessTokens ==
    {t \in revokedOk :
        t.payload.exp - t.payload.iat = Duration(TokenTypeAccess)}

\* C31: on the key-managed token Service, once the revocation of an access
\* token has returned success the marker is in the registry for as long as
\* the token is unexpired, so ValidateToken(token, Access) fails at every
\* later time: as revoked while the token is unexpired and the store
\* reachable, and with some error in every other case.
C31_MarkerOutlivesAccessToken ==
    OnService =>
        \A t \in RevokedAccessTokens :
            /\ Unexpired(t) => (MarkerPresent(t) /\ storeRevoked[t].value)
            /\ \A upRev \in StoreOutcomes, upKey \in KeyStoreOutcomes :
                  /\ Service_ValidateToken(t, TokenTypeAccess, upRev, upKey).err # Nil
                  /\ (Unexpired(t) /\ upRev) =>
                        Service_ValidateToken(t, TokenTypeAccess, upRev, upKey).err
                            = ErrRevoked

\* C31 witness: an access token revoked earlier is validated at a later
\* time, still before its expiry, and is refused as revoked.
C31_Witness ==
    /\ OnService /\ Validated
    /\ last.token \in RevokedAccessTokens
    /\ last.kind = TokenTypeAccess
    /\ last.token.payload.iat < now /\ Unexpired(last.token)
    /\ last.err = ErrRevoked

\* C32: under the TokenConfig of Factory.CreateUserService a reset token that
\* RequestPasswordReset has just issued is unexpired: its lifetime is
\* strictly positive.
C32_ResetTokenUnexpired ==
    ( /\ wiring = "CreateUserService"
      /\ uLast.op = "RequestPasswordReset"
      /\ uLast.err = Nil )
        => /\ Duration(TokenTypeReset) > 0
           /\ now < uLast.token.payload.exp

\* C33: on the distributed tier, as long as every call to the shared store
\* was answered and no caller asked for a rotation, the GetSigningKey calls
\* for a kind return the same key on the two instances.
C33_CrossInstanceKey ==
    (tier = "distributed" /\ ~cacheFailed /\ rotated = {}) =>
        \A r1 \in returned, r2 \in returned :
            (r1.inst # r2.inst /\ r1.tokenType = r2.tokenType)
                => r1.key = r2.key

\* C34: on the distributed tier, right after RotateKey(kind) has returned
\* nil, GetSigningKey(kind) returns the key that the rotation generated,
\* whether the store write of the rotation succeeded or failed and whether
\* the store read of GetSigningKey succeeds or fails.
C34_FreshKeyAfterRotation ==
    (Distributed /\ last.op = "RotateKey" /\ last.err = Nil) =>
        \A up \in BOOLEAN :
            /\ RedisKeyManager_GetSigningKey(last.kind, up).err = Nil
            /\ RedisKeyManager_GetSigningKey(last.kind, up).key = nextKey - 1

\* the keys either tier holds for kind are the same before and after the step
SameKeys(kind) ==
    /\ (kind \in DOMAIN localKeys) = (kind \in DOMAIN localKeys')
    /\ (kind \in DOMAIN storeKeys) = (kind \in DOMAIN storeKeys')
    /\ kind \in DOMAIN localKeys => localKeys'[kind] = localKeys[kind]
    /\ kind \in DOMAIN storeKeys => storeKeys'[kind] = storeKeys[kind]

\* a RotateKey(K) step leaves the keys of the other kinds and the revocation
\* registry alone, and a token of another kind whose signature verified
\* before the step verifies after it
C35_OnlyTheRotatedKind ==
    RotateKeyStep =>
        /\ \A kind \in TokenType \ {last'.kind} : SameKeys(kind)
        /\ storeRevoked' = storeRevoked
        /\ \A i \in issuances :
              (SignedAs(i.token) # last'.kind
                  /\ SignatureVerifies(i.token, SignedAs(i.token)))
                      => SignatureVerifies(i.token, SignedAs(i.token))'

\* a kind that has a key in a tier has one after every step
C35_StaysProvisioned ==
    /\ \A kind \in DOMAIN localKeys : kind \in DOMAIN localKeys'
    /\ \A kind \in DOMAIN storeKeys : kind \in DOMAIN storeKeys'

\* C35: RotateKey(K), on the local and on the distributed tier, changes the
\* key of kind K only: the keys of every other kind and the revocation
\* registry are unchanged, the tokens of other kinds keep verifying, and no
\* step ever takes a kind's key away.
C35_RotateKeyFrame == [][C35_OnlyTheRotatedKind /\ C35_StaysProvisioned]_vars

\* C35 witness: RotateKey(K) has just run while another kind had a key and
\* a token issued under it, and that token still verifies.
C35_Witness ==
    /\ OnService /\ last.op = "RotateKey"
    /\ \E i \in issuances :
          /\ SignedAs(i.token) # last.kind
          /\ SignatureVerifies(i.token, SignedAs(i.token))

\* C36: GenerateRandomPassword never faults: under every policy, whatever
\* classes it enables and however long the password must be, the call ends
\* with a password or with an error value.
C36_NeverFaults ==
    pwLast.op = "GenerateRandomPassword" =>
        /\ pwLast.err \in {Nil, ErrEntropy}
        /\ pwLast.err = Nil => Len(pwLast.password) = GeneratedLength(passwordConfig)

\* C37: in every state a user whose status is pending is not marked
\* email-verified; in particular a user whose email UpdateUser has changed is
\* pending and unverified until a VerifyEmail succeeds.
C37_PendingIsUnverified ==
    \A u \in UserIDs :
        users[u].Status = UserStatusPending => ~users[u].EmailVerified
====
